---- MODULE Spec2Model ----
(***************************************************************************)
(* Tile rasterization + cluster swizzle (isolated_rasterization::Rasterizer *)
(* of rasterization.cu, ported to JavaScript in app.js).                    *)
(*                                                                          *)
(* The state is one Rasterizer instance (its private fields) and a record   *)
(* of the last public call made on it (arguments, locals that the call      *)
(* computed, divisors it evaluated, and the value it returned).             *)
(*                                                                          *)
(* Further callers of the same instance have their own state: `test` is the *)
(* self test of rasterization.cu (main), `hist` the history kept for a      *)
(* caller that re-initialises and repeats calls, `thr` the threads that     *)
(* call decode and encode concurrently, `js` the JavaScript port of app.js, *)
(* `ui` the page of app.js that drives the port.                            *)
(***************************************************************************)
EXTENDS Integers, FiniteSets, Sequences, TLC

VARIABLES rz, configured, call, test, hist, thr, js, ui

vars == <<rz, configured, call, test, hist, thr, js, ui>>

\* State of the callers that the single-caller machine does not run: the self
\* test program, the re-initialising caller, the concurrent readers, the
\* JavaScript port and its page.
others == <<test, hist, thr, js, ui>>

(***************************************************************************)
(* Bounds of the explored input space.                                      *)
(***************************************************************************)
MaxTiles == 6
MaxBatches == 2
MaxCluster == 2
MaxSwizzleArg == 9

TileCounts == 0..MaxTiles
BatchCounts == 0..MaxBatches
ClusterExtents == 0..MaxCluster
SwizzleArgs == (0 - 1)..MaxSwizzleArg

(***************************************************************************)
(* Enumerations and value types.                                            *)
(***************************************************************************)
RasterOrder == {"AlongM", "AlongN"}

RasterOrderOption == {"Heuristic", "AlongM", "AlongN"}

ProblemShape(tm, tn, b) == [tiles_m |-> tm, tiles_n |-> tn, batches |-> b]

ClusterShape(cm, cn) == [m |-> cm, n |-> cn]

Options(s, o) == [max_swizzle_size |-> s, raster_order |-> o]

\* TileCoord out{}: the member initialisers of struct TileCoord.
TileCoord == [m |-> 0, n |-> 0, l |-> 0, valid |-> FALSE, in_bounds |-> FALSE]

\* ~uint64_t{0} in the C++ engine, -1 in the JavaScript port: a value that is
\* no physical index.  The all-ones 64-bit word is written here as -1.
kInvalidLinearIndex == -1

(***************************************************************************)
(* Integer operators of the source language.                                *)
(***************************************************************************)
RECURSIVE Pow2(_)
Pow2(k) == IF k = 0 THEN 1 ELSE 2 * Pow2(k - 1)

\* x >> k and x << k on unsigned words (no bit is shifted out within the
\* explored range).
ShiftRight(x, k) == x \div Pow2(k)

ShiftLeft(x, k) == x * Pow2(k)

RECURSIVE BitAnd(_, _)
BitAnd(a, b) ==
  IF a = 0 \/ b = 0 THEN 0
  ELSE (IF a % 2 = 1 /\ b % 2 = 1 THEN 1 ELSE 0) + 2 * BitAnd(a \div 2, b \div 2)

RECURSIVE BitOr(_, _)
BitOr(a, b) ==
  IF a = 0 THEN b
  ELSE IF b = 0 THEN a
  ELSE (IF a % 2 = 1 \/ b % 2 = 1 THEN 1 ELSE 0) + 2 * BitOr(a \div 2, b \div 2)

(***************************************************************************)
(* Static helpers of Rasterizer.                                            *)
(***************************************************************************)
round_up_floor(value, multiple) ==
  IF multiple = 0 THEN value ELSE (value \div multiple) * multiple

round_up_next(value, multiple) ==
  IF multiple = 0 THEN value ELSE ((value \div multiple) + 1) * multiple

round_up(value, multiple) ==
  IF multiple = 0 THEN value
  ELSE ((value + multiple - 1) \div multiple) * multiple

clamp_max_swizzle_strict(max_swizzle_size) ==
  IF max_swizzle_size > 8 THEN 8
  ELSE IF max_swizzle_size > 4 THEN 4
  ELSE IF max_swizzle_size > 2 THEN 2
  ELSE 1

clamp_max_swizzle(max_swizzle_size) ==
  IF max_swizzle_size >= 8 THEN 8
  ELSE IF max_swizzle_size >= 4 THEN 4
  ELSE IF max_swizzle_size >= 2 THEN 2
  ELSE 1

select_log_swizzle_size_max(problem_ctas_m, problem_ctas_n, max_swizzle_size) ==
  LET max_cta_dim == IF problem_ctas_m < problem_ctas_n
                     THEN problem_ctas_n ELSE problem_ctas_m
  IN IF max_swizzle_size >= 8 /\ max_cta_dim >= 6 THEN 3
     ELSE IF max_swizzle_size >= 4 /\ max_cta_dim >= 3 THEN 2
     ELSE IF max_swizzle_size >= 2 /\ max_cta_dim >= 2 THEN 1
     ELSE 0

select_log_swizzle_size_uncapped(problem_ctas_m, problem_ctas_n, max_swizzle_size) ==
  LET min_cta_dim == IF problem_ctas_m < problem_ctas_n
                     THEN problem_ctas_m ELSE problem_ctas_n
  IN IF min_cta_dim >= 6 THEN 3
     ELSE IF min_cta_dim >= 3 THEN 2
     ELSE IF min_cta_dim >= 2 THEN 1
     ELSE 0

select_log_swizzle_size(problem_ctas_m, problem_ctas_n, max_swizzle_size) ==
  LET min_cta_dim == IF problem_ctas_m < problem_ctas_n
                     THEN problem_ctas_m ELSE problem_ctas_n
  IN IF max_swizzle_size >= 8 /\ min_cta_dim >= 6 THEN 3
     ELSE IF max_swizzle_size >= 4 /\ min_cta_dim >= 3 THEN 2
     ELSE IF max_swizzle_size >= 2 /\ min_cta_dim >= 2 THEN 1
     ELSE 0

select_raster_order_ties_m(tiles_m, tiles_n, option) ==
  IF option = "Heuristic"
  THEN (IF tiles_n >= tiles_m THEN "AlongM" ELSE "AlongN")
  ELSE (IF option = "AlongN" THEN "AlongN" ELSE "AlongM")

select_raster_order(tiles_m, tiles_n, option) ==
  IF option = "Heuristic"
  THEN (IF tiles_n > tiles_m THEN "AlongM" ELSE "AlongN")
  ELSE (IF option = "AlongN" THEN "AlongN" ELSE "AlongM")

(***************************************************************************)
(* The instance.                                                            *)
(***************************************************************************)
\* Rasterizer() = default: the default member initialisers.
DefaultRasterizer ==
  [logical_ |-> ProblemShape(0, 0, 0),
   padded_ |-> ProblemShape(0, 0, 0),
   cluster_ |-> ClusterShape(1, 1),
   raster_order_ |-> "AlongN",
   swizzle_size_ |-> 1,
   log_swizzle_size_ |-> 0,
   cluster_major_ |-> 1,
   cluster_minor_ |-> 1,
   clusters_along_major_ |-> 0,
   tiles_per_batch_ |-> 0,
   total_tiles_ |-> 0]

init_coerce_n_on_m(problem, cluster, options) ==
  LET cluster_ == ClusterShape(IF cluster.m = 0 THEN 1 ELSE cluster.m,
                               IF cluster.m = 0 THEN 1 ELSE cluster.n)
      capped_max_swizzle == clamp_max_swizzle(options.max_swizzle_size)
      log_swizzle_size_ ==
        select_log_swizzle_size(problem.tiles_m, problem.tiles_n, capped_max_swizzle)
      swizzle_size_ == ShiftLeft(1, log_swizzle_size_)
      align_m == swizzle_size_ * cluster_.m
      align_n == swizzle_size_ * cluster_.n
      padded_ == ProblemShape(round_up(problem.tiles_m, align_m),
                              round_up(problem.tiles_n, align_n),
                              problem.batches)
      raster_order_ ==
        select_raster_order(padded_.tiles_m, padded_.tiles_n, options.raster_order)
      tiles_per_batch_ == padded_.tiles_m * padded_.tiles_n
  IN [logical_ |-> problem,
      padded_ |-> padded_,
      cluster_ |-> cluster_,
      raster_order_ |-> raster_order_,
      swizzle_size_ |-> swizzle_size_,
      log_swizzle_size_ |-> log_swizzle_size_,
      cluster_major_ |-> IF raster_order_ = "AlongN" THEN cluster_.n ELSE cluster_.m,
      cluster_minor_ |-> IF raster_order_ = "AlongN" THEN cluster_.m ELSE cluster_.n,
      clusters_along_major_ |->
        IF raster_order_ = "AlongN"
        THEN (IF cluster_.n = 0 THEN 0 ELSE padded_.tiles_n \div cluster_.n)
        ELSE (IF cluster_.m = 0 THEN 0 ELSE padded_.tiles_m \div cluster_.m),
      tiles_per_batch_ |-> tiles_per_batch_,
      total_tiles_ |-> tiles_per_batch_ * padded_.batches]

init_count_along_n(problem, cluster, options) ==
  LET cluster_ == ClusterShape(IF cluster.m = 0 THEN 1 ELSE cluster.m,
                               IF cluster.n = 0 THEN 1 ELSE cluster.n)
      capped_max_swizzle == clamp_max_swizzle(options.max_swizzle_size)
      log_swizzle_size_ ==
        select_log_swizzle_size(problem.tiles_m, problem.tiles_n, capped_max_swizzle)
      swizzle_size_ == ShiftLeft(1, log_swizzle_size_)
      align_m == swizzle_size_ * cluster_.m
      align_n == swizzle_size_ * cluster_.n
      padded_ == ProblemShape(round_up(problem.tiles_m, align_m),
                              round_up(problem.tiles_n, align_n),
                              problem.batches)
      raster_order_ ==
        select_raster_order(padded_.tiles_m, padded_.tiles_n, options.raster_order)
      tiles_per_batch_ == padded_.tiles_m * padded_.tiles_n
  IN [logical_ |-> problem,
      padded_ |-> padded_,
      cluster_ |-> cluster_,
      raster_order_ |-> raster_order_,
      swizzle_size_ |-> swizzle_size_,
      log_swizzle_size_ |-> log_swizzle_size_,
      cluster_major_ |-> IF raster_order_ = "AlongN" THEN cluster_.n ELSE cluster_.m,
      cluster_minor_ |-> IF raster_order_ = "AlongN" THEN cluster_.m ELSE cluster_.n,
      clusters_along_major_ |->
        IF raster_order_ = "AlongN"
        THEN (IF cluster_.n = 0 THEN 0 ELSE padded_.tiles_n \div cluster_.n)
        ELSE (IF cluster_.n = 0 THEN 0 ELSE padded_.tiles_n \div cluster_.n),
      tiles_per_batch_ |-> tiles_per_batch_,
      total_tiles_ |-> tiles_per_batch_ * padded_.batches]

\* The state init leaves behind, as a function of its three arguments.
init(problem, cluster, options) ==
  LET cluster_ == ClusterShape(IF cluster.m = 0 THEN 1 ELSE cluster.m,
                               IF cluster.n = 0 THEN 1 ELSE cluster.n)
      capped_max_swizzle == clamp_max_swizzle(options.max_swizzle_size)
      log_swizzle_size_ ==
        select_log_swizzle_size(problem.tiles_m, problem.tiles_n, capped_max_swizzle)
      swizzle_size_ == ShiftLeft(1, log_swizzle_size_)
      align_m == swizzle_size_ * cluster_.m
      align_n == swizzle_size_ * cluster_.n
      padded_ == ProblemShape(round_up(problem.tiles_m, align_m),
                              round_up(problem.tiles_n, align_n),
                              problem.batches)
      raster_order_ ==
        select_raster_order(padded_.tiles_m, padded_.tiles_n, options.raster_order)
      tiles_per_batch_ == padded_.tiles_m * padded_.tiles_n
  IN [logical_ |-> problem,
      padded_ |-> padded_,
      cluster_ |-> cluster_,
      raster_order_ |-> raster_order_,
      swizzle_size_ |-> swizzle_size_,
      log_swizzle_size_ |-> log_swizzle_size_,
      cluster_major_ |-> IF raster_order_ = "AlongN" THEN cluster_.n ELSE cluster_.m,
      cluster_minor_ |-> IF raster_order_ = "AlongN" THEN cluster_.m ELSE cluster_.n,
      clusters_along_major_ |->
        IF raster_order_ = "AlongN"
        THEN (IF cluster_.n = 0 THEN 0 ELSE padded_.tiles_n \div cluster_.n)
        ELSE (IF cluster_.m = 0 THEN 0 ELSE padded_.tiles_m \div cluster_.m),
      tiles_per_batch_ |-> tiles_per_batch_,
      total_tiles_ |-> tiles_per_batch_ * padded_.batches]

init_on_stale_order(r, problem, cluster, options) ==
  LET r1 == [r EXCEPT !.logical_ = problem, !.cluster_ = cluster]
      r2 == [r1 EXCEPT !.cluster_.m = IF r1.cluster_.m = 0 THEN 1 ELSE @]
      r3 == [r2 EXCEPT !.cluster_.n = IF r2.cluster_.n = 0 THEN 1 ELSE @]
      capped_max_swizzle == clamp_max_swizzle(options.max_swizzle_size)
      r4 == [r3 EXCEPT !.log_swizzle_size_ =
               select_log_swizzle_size(r3.logical_.tiles_m, r3.logical_.tiles_n,
                                       capped_max_swizzle)]
      r5 == [r4 EXCEPT !.swizzle_size_ = ShiftLeft(1, r4.log_swizzle_size_)]
      align_m == r5.swizzle_size_ * r5.cluster_.m
      align_n == r5.swizzle_size_ * r5.cluster_.n
      r6 == [r5 EXCEPT !.padded_ =
               ProblemShape(round_up(r5.logical_.tiles_m, align_m),
                            round_up(r5.logical_.tiles_n, align_n),
                            r5.logical_.batches)]
      r7 == [r6 EXCEPT !.raster_order_ =
               select_raster_order(r6.padded_.tiles_m, r6.padded_.tiles_n,
                                   options.raster_order)]
      r8 == IF r6.raster_order_ = "AlongN"
            THEN [r7 EXCEPT !.cluster_major_ = r7.cluster_.n,
                            !.cluster_minor_ = r7.cluster_.m,
                            !.clusters_along_major_ =
                              IF r7.cluster_.n = 0 THEN 0
                              ELSE r7.padded_.tiles_n \div r7.cluster_.n]
            ELSE [r7 EXCEPT !.cluster_major_ = r7.cluster_.m,
                            !.cluster_minor_ = r7.cluster_.n,
                            !.clusters_along_major_ =
                              IF r7.cluster_.m = 0 THEN 0
                              ELSE r7.padded_.tiles_m \div r7.cluster_.m]
      r9 == [r8 EXCEPT !.tiles_per_batch_ = r8.padded_.tiles_m * r8.padded_.tiles_n]
  IN [r9 EXCEPT !.total_tiles_ = r9.tiles_per_batch_ * r9.padded_.batches]

\* init called on an existing instance r: the assignments of init in program
\* order, each reading the fields the statements before it left.
init_on(r, problem, cluster, options) ==
  LET r1 == [r EXCEPT !.logical_ = problem, !.cluster_ = cluster]
      r2 == [r1 EXCEPT !.cluster_.m = IF r1.cluster_.m = 0 THEN 1 ELSE @]
      r3 == [r2 EXCEPT !.cluster_.n = IF r2.cluster_.n = 0 THEN 1 ELSE @]
      capped_max_swizzle == clamp_max_swizzle(options.max_swizzle_size)
      r4 == [r3 EXCEPT !.log_swizzle_size_ =
               select_log_swizzle_size(r3.logical_.tiles_m, r3.logical_.tiles_n,
                                       capped_max_swizzle)]
      r5 == [r4 EXCEPT !.swizzle_size_ = ShiftLeft(1, r4.log_swizzle_size_)]
      align_m == r5.swizzle_size_ * r5.cluster_.m
      align_n == r5.swizzle_size_ * r5.cluster_.n
      r6 == [r5 EXCEPT !.padded_ =
               ProblemShape(round_up(r5.logical_.tiles_m, align_m),
                            round_up(r5.logical_.tiles_n, align_n),
                            r5.logical_.batches)]
      r7 == [r6 EXCEPT !.raster_order_ =
               select_raster_order(r6.padded_.tiles_m, r6.padded_.tiles_n,
                                   options.raster_order)]
      r8 == IF r7.raster_order_ = "AlongN"
            THEN [r7 EXCEPT !.cluster_major_ = r7.cluster_.n,
                            !.cluster_minor_ = r7.cluster_.m,
                            !.clusters_along_major_ =
                              IF r7.cluster_.n = 0 THEN 0
                              ELSE r7.padded_.tiles_n \div r7.cluster_.n]
            ELSE [r7 EXCEPT !.cluster_major_ = r7.cluster_.m,
                            !.cluster_minor_ = r7.cluster_.n,
                            !.clusters_along_major_ =
                              IF r7.cluster_.m = 0 THEN 0
                              ELSE r7.padded_.tiles_m \div r7.cluster_.m]
      r9 == [r8 EXCEPT !.tiles_per_batch_ = r8.padded_.tiles_m * r8.padded_.tiles_n]
  IN [r9 EXCEPT !.total_tiles_ = r9.tiles_per_batch_ * r9.padded_.batches]

logical_tile_count(r) ==
  r.logical_.tiles_m * r.logical_.tiles_n * r.logical_.batches

has_valid_extent(r) ==
  /\ r.cluster_major_ > 0
  /\ r.cluster_minor_ > 0
  /\ r.clusters_along_major_ > 0
  /\ r.padded_.batches > 0
  /\ r.tiles_per_batch_ > 0

(***************************************************************************)
(* Cluster swizzle: the strip-mined order in which clusters are visited.    *)
(***************************************************************************)
decode_swizzled_cluster_id_swapped(r, cluster_id_swizzled) ==
  LET swizzle_mask == r.swizzle_size_ - 1
      offset == BitAnd(cluster_id_swizzled, swizzle_mask)
      extra == ShiftRight(cluster_id_swizzled, r.log_swizzle_size_)
  IN [cluster_minor_idx |-> (extra % r.clusters_along_major_) * r.swizzle_size_ + offset,
      cluster_major_idx |-> extra \div r.clusters_along_major_]

decode_swizzled_cluster_id_unscaled(r, cluster_id_swizzled) ==
  LET swizzle_mask == r.swizzle_size_ - 1
      offset == BitAnd(cluster_id_swizzled, swizzle_mask)
      extra == ShiftRight(cluster_id_swizzled, r.log_swizzle_size_)
  IN [cluster_minor_idx |-> (extra \div r.clusters_along_major_) + offset,
      cluster_major_idx |-> extra % r.clusters_along_major_]

decode_swizzled_cluster_id_row_major(r, cluster_id_swizzled) ==
  [cluster_minor_idx |-> cluster_id_swizzled \div r.clusters_along_major_,
   cluster_major_idx |-> cluster_id_swizzled % r.clusters_along_major_]

decode_swizzled_cluster_id(r, cluster_id_swizzled) ==
  LET swizzle_mask == r.swizzle_size_ - 1
      offset == BitAnd(cluster_id_swizzled, swizzle_mask)
      extra == ShiftRight(cluster_id_swizzled, r.log_swizzle_size_)
  IN [cluster_minor_idx |-> (extra \div r.clusters_along_major_) * r.swizzle_size_ + offset,
      cluster_major_idx |-> extra % r.clusters_along_major_]

encode_swizzled_cluster_id_unshifted(r, cluster_major_idx, cluster_minor_idx) ==
  LET swizzle_mask == r.swizzle_size_ - 1
      cluster_minor_div_swizzle == ShiftRight(cluster_minor_idx, r.log_swizzle_size_)
      offset == BitAnd(cluster_minor_idx, swizzle_mask)
      extra == cluster_minor_div_swizzle * r.clusters_along_major_ + cluster_major_idx
  IN BitOr(extra, offset)

encode_swizzled_cluster_id_no_offset(r, cluster_major_idx, cluster_minor_idx) ==
  LET cluster_minor_div_swizzle == ShiftRight(cluster_minor_idx, r.log_swizzle_size_)
      extra == cluster_minor_div_swizzle * r.clusters_along_major_ + cluster_major_idx
  IN ShiftLeft(extra, r.log_swizzle_size_)

encode_swizzled_cluster_id(r, cluster_major_idx, cluster_minor_idx) ==
  LET swizzle_mask == r.swizzle_size_ - 1
      cluster_minor_div_swizzle == ShiftRight(cluster_minor_idx, r.log_swizzle_size_)
      offset == BitAnd(cluster_minor_idx, swizzle_mask)
      extra == cluster_minor_div_swizzle * r.clusters_along_major_ + cluster_major_idx
  IN BitOr(ShiftLeft(extra, r.log_swizzle_size_), offset)

(***************************************************************************)
(* decode: physical linear work index -> (m, n, l).                         *)
(***************************************************************************)
in_bounds_inclusive(r, m, n, l) ==
  m <= r.logical_.tiles_m /\ n <= r.logical_.tiles_n /\ l <= r.logical_.batches

in_bounds_m_only(r, m, n, l) ==
  m < r.logical_.tiles_m /\ l < r.logical_.batches

\* out.in_bounds of decode.
in_bounds(r, m, n, l) ==
  m < r.logical_.tiles_m /\ n < r.logical_.tiles_n /\ l < r.logical_.batches

decode_in_range_order_blind(r, linear_idx) ==
  LET l == linear_idx \div r.tiles_per_batch_
      idx_in_batch == linear_idx % r.tiles_per_batch_
      minor_offset == idx_in_batch % r.cluster_minor_
      blk_per_grid_dim == idx_in_batch \div r.cluster_minor_
      cluster_id_swizzled == blk_per_grid_dim \div r.cluster_major_
      major_offset == blk_per_grid_dim % r.cluster_major_
      idx == decode_swizzled_cluster_id(r, cluster_id_swizzled)
      major == idx.cluster_major_idx * r.cluster_major_ + major_offset
      minor == idx.cluster_minor_idx * r.cluster_minor_ + minor_offset
  IN [m |-> major, n |-> minor, l |-> l, valid |-> TRUE,
      in_bounds |-> in_bounds(r, major, minor, l)]

\* The body of decode past its two early returns.
decode_in_range(r, linear_idx) ==
  LET l == linear_idx \div r.tiles_per_batch_
      idx_in_batch == linear_idx % r.tiles_per_batch_
      minor_offset == idx_in_batch % r.cluster_minor_
      blk_per_grid_dim == idx_in_batch \div r.cluster_minor_
      cluster_id_swizzled == blk_per_grid_dim \div r.cluster_major_
      major_offset == blk_per_grid_dim % r.cluster_major_
      idx == decode_swizzled_cluster_id(r, cluster_id_swizzled)
      major == idx.cluster_major_idx * r.cluster_major_ + major_offset
      minor == idx.cluster_minor_idx * r.cluster_minor_ + minor_offset
      m == IF r.raster_order_ = "AlongN" THEN minor ELSE major
      n == IF r.raster_order_ = "AlongN" THEN major ELSE minor
  IN [m |-> m, n |-> n, l |-> l, valid |-> TRUE, in_bounds |-> in_bounds(r, m, n, l)]

decode_range_inclusive(r, linear_idx) ==
  IF ~has_valid_extent(r) THEN TileCoord
  ELSE IF linear_idx > r.total_tiles_ THEN TileCoord
  ELSE decode_in_range(r, linear_idx)

decode(r, linear_idx) ==
  IF ~has_valid_extent(r) THEN TileCoord
  ELSE IF linear_idx >= r.total_tiles_ THEN TileCoord
  ELSE decode_in_range(r, linear_idx)

\* The divisors of the / and % that decode evaluates, none before it has
\* passed its early returns.
decode_divisors(r, linear_idx) ==
  IF ~has_valid_extent(r) THEN {}
  ELSE IF linear_idx >= r.total_tiles_ THEN {}
  ELSE {r.tiles_per_batch_, r.cluster_minor_, r.cluster_major_, r.clusters_along_major_}

(***************************************************************************)
(* encode: (m, n, l) -> physical linear work index, or the sentinel.        *)
(***************************************************************************)
encode_in_range_unscaled(r, tile_m, tile_n, tile_l) ==
  LET major == IF r.raster_order_ = "AlongN" THEN tile_n ELSE tile_m
      minor == IF r.raster_order_ = "AlongN" THEN tile_m ELSE tile_n
      cluster_major_idx == major \div r.cluster_major_
      cluster_minor_idx == minor \div r.cluster_minor_
      major_offset == major % r.cluster_major_
      minor_offset == minor % r.cluster_minor_
      cluster_id_swizzled ==
        encode_swizzled_cluster_id(r, cluster_major_idx, cluster_minor_idx)
      blk_per_grid_dim == cluster_id_swizzled + major_offset
      idx_in_batch == blk_per_grid_dim * r.cluster_minor_ + minor_offset
  IN tile_l * r.tiles_per_batch_ + idx_in_batch

\* The body of encode past its three early returns.
encode_in_range(r, tile_m, tile_n, tile_l) ==
  LET major == IF r.raster_order_ = "AlongN" THEN tile_n ELSE tile_m
      minor == IF r.raster_order_ = "AlongN" THEN tile_m ELSE tile_n
      cluster_major_idx == major \div r.cluster_major_
      cluster_minor_idx == minor \div r.cluster_minor_
      major_offset == major % r.cluster_major_
      minor_offset == minor % r.cluster_minor_
      cluster_id_swizzled ==
        encode_swizzled_cluster_id(r, cluster_major_idx, cluster_minor_idx)
      blk_per_grid_dim == cluster_id_swizzled * r.cluster_major_ + major_offset
      idx_in_batch == blk_per_grid_dim * r.cluster_minor_ + minor_offset
  IN tile_l * r.tiles_per_batch_ + idx_in_batch

encode_bound_inclusive(r, tile_m, tile_n, tile_l, allow_padded) ==
  IF ~has_valid_extent(r) THEN kInvalidLinearIndex
  ELSE IF tile_l >= r.logical_.batches THEN kInvalidLinearIndex
  ELSE LET bound_m == IF allow_padded THEN r.padded_.tiles_m ELSE r.logical_.tiles_m
           bound_n == IF allow_padded THEN r.padded_.tiles_n ELSE r.logical_.tiles_n
       IN IF tile_m > bound_m \/ tile_n > bound_n THEN kInvalidLinearIndex
          ELSE encode_in_range(r, tile_m, tile_n, tile_l)

encode(r, tile_m, tile_n, tile_l, allow_padded) ==
  IF ~has_valid_extent(r) THEN kInvalidLinearIndex
  ELSE IF tile_l >= r.logical_.batches THEN kInvalidLinearIndex
  ELSE LET bound_m == IF allow_padded THEN r.padded_.tiles_m ELSE r.logical_.tiles_m
           bound_n == IF allow_padded THEN r.padded_.tiles_n ELSE r.logical_.tiles_n
       IN IF tile_m >= bound_m \/ tile_n >= bound_n THEN kInvalidLinearIndex
          ELSE encode_in_range(r, tile_m, tile_n, tile_l)

\* The divisors of the / and % that encode evaluates.
encode_divisors(r, tile_m, tile_n, tile_l, allow_padded) ==
  IF ~has_valid_extent(r) THEN {}
  ELSE IF tile_l >= r.logical_.batches THEN {}
  ELSE IF tile_m >= (IF allow_padded THEN r.padded_.tiles_m ELSE r.logical_.tiles_m) \/
          tile_n >= (IF allow_padded THEN r.padded_.tiles_n ELSE r.logical_.tiles_n)
  THEN {}
  ELSE {r.cluster_major_, r.cluster_minor_}

(***************************************************************************)
(* The state machine: one instance and its single-threaded caller.  The     *)
(* caller constructs the instance, then makes one call at a time; `call`    *)
(* holds the call whose result the caller has not consumed yet.             *)
(***************************************************************************)
NoCall ==
  [op |-> "none",
   problem |-> ProblemShape(0, 0, 0),
   cluster |-> ClusterShape(1, 1),
   options |-> Options(1, "Heuristic"),
   capped_max_swizzle |-> 1,
   linear_idx |-> 0,
   tile_m |-> 0, tile_n |-> 0, tile_l |-> 0, allow_padded |-> FALSE,
   divisors |-> {},
   coord |-> TileCoord,
   linear |-> kInvalidLinearIndex]

\* What a call that divides by zero may return: anything.
UndefinedCoords ==
  [m : 0..1, n : 0..1, l : 0..1, valid : BOOLEAN, in_bounds : BOOLEAN]

UndefinedIndices == {kInvalidLinearIndex, 0, 1}

\* The self test has not started.
TestIdle == [pc |-> "idle"]

\* No call is remembered.
NoPrev == [op |-> "none"]

\* No init counted, no earlier call remembered.
NoHistory == [inits |-> 0, changed |-> FALSE, prev |-> NoPrev, repeated |-> FALSE]

NumThreads == 2

Threads == 1..NumThreads

\* A thread that is in no call.
ThreadIdle == [pc |-> "idle"]

\* The arguments, locals and return value of a decode or encode call that has
\* just been entered.
ThreadLocals ==
  [pc |-> "entered", op |-> "none",
   linear_idx |-> 0, tile_m |-> 0, tile_n |-> 0, tile_l |-> 0,
   allow_padded |-> FALSE,
   l |-> 0, cluster_id_swizzled |-> 0, major_offset |-> 0, minor_offset |-> 0,
   cluster_major_idx |-> 0, cluster_minor_idx |-> 0,
   coord |-> TileCoord, linear |-> kInvalidLinearIndex]

(***************************************************************************)
(* class Rasterizer of app.js.  A JavaScript number holds every integer    *)
(* met here exactly; the operators & | << >> first convert an operand to a *)
(* signed two's complement integer (ToInt32).  TLC's integers end at       *)
(* 2^31 - 1, so the width of that integer is scaled down: JsIntBits stands *)
(* for the 32 bits of ToInt32.  The inputs drawn below stay where no        *)
(* unsigned type of the C++ class wraps.                                   *)
(***************************************************************************)
JsIntBits == 6

\* ToInt32: the value modulo 2^JsIntBits, read as a signed integer.
JsToInt32(x) ==
  LET r == x % Pow2(JsIntBits)
  IN IF r >= Pow2(JsIntBits - 1) THEN r - Pow2(JsIntBits) ELSE r

\* The unsigned reading of a signed word.
JsBits(x) == x % Pow2(JsIntBits)

\* x & y
JsBitAnd(x, y) == JsToInt32(BitAnd(JsBits(x), JsBits(y)))

\* x | y
JsBitOr(x, y) == JsToInt32(BitOr(JsBits(x), JsBits(y)))

\* x >> n: sign-propagating shift of ToInt32(x).
JsShiftRight(x, n) == JsToInt32(x) \div Pow2(n)

\* x << n
JsShiftLeft(x, n) == JsToInt32(JsToInt32(x) * Pow2(n))

\* Math.trunc(a / b) for b > 0: the quotient rounded toward zero.
JsTruncDiv(a, b) == IF a >= 0 THEN a \div b ELSE 0 - ((0 - a) \div b)

\* a % b of JavaScript for b > 0: the remainder has the sign of a.
JsRem(a, b) == a - b * JsTruncDiv(a, b)

\* v || 1
JsOrOne(v) == IF v = 0 THEN 1 ELSE v

JsMax(a, b) == IF a >= b THEN a ELSE b

roundUp(value, multiple) ==
  IF multiple = 0 THEN value
  ELSE JsTruncDiv(value + multiple - 1, multiple) * multiple

clampMaxSwizzle(maxSwizzleSize) ==
  IF maxSwizzleSize >= 8 THEN 8
  ELSE IF maxSwizzleSize >= 4 THEN 4
  ELSE IF maxSwizzleSize >= 2 THEN 2
  ELSE 1

selectLogSwizzleSize(problemCtasM, problemCtasN, maxSwizzleSize) ==
  LET minCtaDim == IF problemCtasM < problemCtasN THEN problemCtasM
                   ELSE problemCtasN
  IN IF maxSwizzleSize >= 8 /\ minCtaDim >= 6 THEN 3
     ELSE IF maxSwizzleSize >= 4 /\ minCtaDim >= 3 THEN 2
     ELSE IF maxSwizzleSize >= 2 /\ minCtaDim >= 2 THEN 1
     ELSE 0

selectRasterOrder(tilesM, tilesN, option) ==
  IF option = "Heuristic"
  THEN (IF tilesN > tilesM THEN "AlongM" ELSE "AlongN")
  ELSE (IF option = "AlongN" THEN "AlongN" ELSE "AlongM")

\* The fields init of app.js leaves on the object.
JsInit(problem, cluster, options) ==
  LET logical_ == ProblemShape(JsMax(0, problem.tiles_m),
                               JsMax(0, problem.tiles_n),
                               JsMax(0, problem.batches))
      cluster_ == ClusterShape(JsMax(1, JsOrOne(cluster.m)),
                               JsMax(1, JsOrOne(cluster.n)))
      cappedMaxSwizzle == clampMaxSwizzle(JsOrOne(options.max_swizzle_size))
      log_swizzle_size_ ==
        selectLogSwizzleSize(logical_.tiles_m, logical_.tiles_n, cappedMaxSwizzle)
      swizzle_size_ == JsShiftLeft(1, log_swizzle_size_)
      alignM == swizzle_size_ * cluster_.m
      alignN == swizzle_size_ * cluster_.n
      padded_ == ProblemShape(roundUp(logical_.tiles_m, alignM),
                              roundUp(logical_.tiles_n, alignN),
                              logical_.batches)
      raster_order_ ==
        selectRasterOrder(padded_.tiles_m, padded_.tiles_n, options.raster_order)
      along_n == JsTruncDiv(padded_.tiles_n, cluster_.n)
      along_m == JsTruncDiv(padded_.tiles_m, cluster_.m)
      tiles_per_batch_ == padded_.tiles_m * padded_.tiles_n
  IN [logical_ |-> logical_,
      padded_ |-> padded_,
      cluster_ |-> cluster_,
      raster_order_ |-> raster_order_,
      swizzle_size_ |-> swizzle_size_,
      log_swizzle_size_ |-> log_swizzle_size_,
      cluster_major_ |-> IF raster_order_ = "AlongN" THEN cluster_.n ELSE cluster_.m,
      cluster_minor_ |-> IF raster_order_ = "AlongN" THEN cluster_.m ELSE cluster_.n,
      clusters_along_major_ |-> IF raster_order_ = "AlongN" THEN along_n ELSE along_m,
      clusters_along_minor_ |-> IF raster_order_ = "AlongN" THEN along_m ELSE along_n,
      tiles_per_batch_ |-> tiles_per_batch_,
      total_tiles_ |-> tiles_per_batch_ * padded_.batches]

hasValidExtent(r) ==
  /\ r.cluster_major_ > 0
  /\ r.cluster_minor_ > 0
  /\ r.clusters_along_major_ > 0
  /\ r.padded_.batches > 0
  /\ r.tiles_per_batch_ > 0

decodeSwizzledClusterId(r, clusterIdSwizzled) ==
  LET swizzleMask == r.swizzle_size_ - 1
      offset == JsBitAnd(clusterIdSwizzled, swizzleMask)
      extra == JsShiftRight(clusterIdSwizzled, r.log_swizzle_size_)
  IN [clusterMinorIdx |->
        JsTruncDiv(extra, r.clusters_along_major_) * r.swizzle_size_ + offset,
      clusterMajorIdx |-> JsRem(extra, r.clusters_along_major_)]

encodeSwizzledClusterId(r, clusterMajorIdx, clusterMinorIdx) ==
  LET swizzleMask == r.swizzle_size_ - 1
      clusterMinorDivSwizzle == JsShiftRight(clusterMinorIdx, r.log_swizzle_size_)
      offset == JsBitAnd(clusterMinorIdx, swizzleMask)
      extra == clusterMinorDivSwizzle * r.clusters_along_major_ + clusterMajorIdx
  IN JsBitOr(JsShiftLeft(extra, r.log_swizzle_size_), offset)

\* decode of app.js, without the debug member of its result.
JsDecode(r, linearIdx) ==
  IF ~hasValidExtent(r) THEN TileCoord
  ELSE IF linearIdx < 0 \/ linearIdx >= r.total_tiles_ THEN TileCoord
  ELSE LET l == JsTruncDiv(linearIdx, r.tiles_per_batch_)
           idxInBatch == JsRem(linearIdx, r.tiles_per_batch_)
           minorOffset == JsRem(idxInBatch, r.cluster_minor_)
           blkPerGridDim == JsTruncDiv(idxInBatch, r.cluster_minor_)
           clusterIdSwizzled == JsTruncDiv(blkPerGridDim, r.cluster_major_)
           majorOffset == JsRem(blkPerGridDim, r.cluster_major_)
           clusterIndices == decodeSwizzledClusterId(r, clusterIdSwizzled)
           major == clusterIndices.clusterMajorIdx * r.cluster_major_ + majorOffset
           minor == clusterIndices.clusterMinorIdx * r.cluster_minor_ + minorOffset
           m == IF r.raster_order_ = "AlongN" THEN minor ELSE major
           n == IF r.raster_order_ = "AlongN" THEN major ELSE minor
       IN [m |-> m, n |-> n, l |-> l, valid |-> TRUE,
           in_bounds |-> /\ m < r.logical_.tiles_m
                         /\ n < r.logical_.tiles_n
                         /\ l < r.logical_.batches]

\* encode of app.js.
JsEncode(r, tileM, tileN, tileL, allowPadded) ==
  IF ~hasValidExtent(r) THEN kInvalidLinearIndex
  ELSE IF tileL < 0 \/ tileL >= r.logical_.batches THEN kInvalidLinearIndex
  ELSE LET boundM == IF allowPadded THEN r.padded_.tiles_m ELSE r.logical_.tiles_m
           boundN == IF allowPadded THEN r.padded_.tiles_n ELSE r.logical_.tiles_n
       IN IF tileM < 0 \/ tileN < 0 \/ tileM >= boundM \/ tileN >= boundN
          THEN kInvalidLinearIndex
          ELSE LET major == IF r.raster_order_ = "AlongN" THEN tileN ELSE tileM
                   minor == IF r.raster_order_ = "AlongN" THEN tileM ELSE tileN
                   clusterMajorIdx == JsTruncDiv(major, r.cluster_major_)
                   clusterMinorIdx == JsTruncDiv(minor, r.cluster_minor_)
                   majorOffset == JsRem(major, r.cluster_major_)
                   minorOffset == JsRem(minor, r.cluster_minor_)
                   clusterIdSwizzled ==
                     encodeSwizzledClusterId(r, clusterMajorIdx, clusterMinorIdx)
                   blkPerGridDim == clusterIdSwizzled * r.cluster_major_ + majorOffset
                   idxInBatch == blkPerGridDim * r.cluster_minor_ + minorOffset
               IN tileL * r.tiles_per_batch_ + idxInBatch

\* No JavaScript instance has been made.
JsNone == [made |-> FALSE]

(***************************************************************************)
(* The page of app.js: the `state` object, the helpers of its event         *)
(* handlers and the browser's interval timers.  A field of the page holds   *)
(* text, a sequence of characters.                                          *)
(***************************************************************************)
Digits == <<"0", "1", "2", "3", "4", "5", "6", "7", "8", "9">>

IsDigit(c) == \E d \in 1..10 : Digits[d] = c

DigitValue(c) == (CHOOSE d \in 1..10 : Digits[d] = c) - 1

\* String(n): the decimal text of an integer.
RECURSIVE DecimalText(_)
DecimalText(n) ==
  IF n < 0 THEN <<"-">> \o DecimalText(0 - n)
  ELSE IF n < 10 THEN <<Digits[n + 1]>>
  ELSE Append(DecimalText(n \div 10), Digits[(n % 10) + 1])

\* The value of Number.parseInt for text that does not start with a number.
NaN == [finite |-> FALSE, value |-> 0]

RECURSIVE ParseDigits(_, _)
ParseDigits(text, acc) ==
  IF text = <<>> \/ ~IsDigit(Head(text)) THEN acc
  ELSE ParseDigits(Tail(text), acc * 10 + DigitValue(Head(text)))

\* Number.parseInt(text, 10): an optional sign, then the longest run of
\* digits; what follows the digits is ignored.
parseInt(text) ==
  LET signed == text # <<>> /\ Head(text) \in {"-", "+"}
      body == IF signed THEN Tail(text) ELSE text
  IN IF body = <<>> \/ ~IsDigit(Head(body)) THEN NaN
     ELSE [finite |-> TRUE,
           value |-> IF Head(text) = "-" THEN 0 - ParseDigits(body, 0)
                     ELSE ParseDigits(body, 0)]

JsMin(a, b) == IF a <= b THEN a ELSE b

clamp(value, lo, hi) == JsMax(lo, JsMin(hi, value))

\* readInt that returns what was parsed, unclamped.
readInt_unclamped(text, fallback, lo, hi) ==
  LET parsed == parseInt(text)
  IN IF ~parsed.finite THEN fallback ELSE parsed.value

readInt(text, fallback, lo, hi) ==
  LET parsed == parseInt(text)
  IN IF ~parsed.finite THEN fallback ELSE clamp(parsed.value, lo, hi)

\* state.timer = null.
NoTimer == 0

\* The first loop of getBatchData: the tiles of the batch in physical order.
\* Round `local` decodes one tile and pushes its entry onto `sequence`.
batchSequence(r, batch) ==
  LET entry(local, tile) ==
        [m |-> tile.m, n |-> tile.n, order |-> local, inBounds |-> tile.in_bounds]
      pushed == [i \in 1..r.tiles_per_batch_ |->
                   CHOOSE e \in {entry(i - 1, tile) :
                                   tile \in {JsDecode(r, batch * r.tiles_per_batch_ + (i - 1))}} :
                     TRUE]
  IN SubSeq(pushed, 1, r.tiles_per_batch_)

\* orderByCoord.get(key) after the first loop: the entry that set the key
\* last, or undefined (-1) when none did.
orderByCoordGet(sequence, m, n) ==
  LET set == {i \in 1..Len(sequence) : sequence[i].m = m /\ sequence[i].n = n}
  IN IF set = {} THEN 0 - 1
     ELSE sequence[CHOOSE i \in set : \A j \in set : j <= i].order

\* The second loop of getBatchData: the cells of the padded grid, row by row.
batchCells(r, sequence) ==
  LET pushed == [k \in 1..(r.padded_.tiles_m * r.padded_.tiles_n) |->
                   LET m == (k - 1) \div r.padded_.tiles_n
                       n == (k - 1) % r.padded_.tiles_n
                   IN [m |-> m, n |-> n,
                       order |-> orderByCoordGet(sequence, m, n),
                       inBounds |-> m < r.logical_.tiles_m /\ n < r.logical_.tiles_n]]
  IN SubSeq(pushed, 1, r.padded_.tiles_m * r.padded_.tiles_n)

\* The value getBatchData caches.
cachedBatchData(r, sequence) ==
  [cells |-> batchCells(r, sequence),
   sequence |-> sequence,
   logicalSequence |-> SelectSeq(sequence, LAMBDA e : e.inBounds)]

\* The body of getBatchData past the cache lookup: `sequence` is filled once
\* and then read.
computeBatchData(r, batch) ==
  CHOOSE cached \in {cachedBatchData(r, sequence) :
                       sequence \in {batchSequence(r, batch)}} : TRUE

\* state.batchCache after getBatchData(batch).
getBatchData(s, batch) ==
  IF batch \in DOMAIN s.batchCache THEN s.batchCache
  ELSE (batch :> computeBatchData(s.rasterizer, batch)) @@ s.batchCache

SelfCheckBudget == 600000

runSelfCheck(r) ==
  LET logicalTileCount == r.logical_.tiles_m * r.logical_.tiles_n * r.logical_.batches
  IN IF logicalTileCount + r.total_tiles_ > SelfCheckBudget
     THEN [skipped |-> TRUE, mismatches |-> 0, inBoundsCount |-> 0]
     ELSE [skipped |-> FALSE,
           mismatches |->
             Cardinality(
               {c \in (0..(r.logical_.batches - 1)) \X (0..(r.logical_.tiles_m - 1))
                        \X (0..(r.logical_.tiles_n - 1)) :
                  LET linear == JsEncode(r, c[2], c[3], c[1], FALSE)
                      decoded == JsDecode(r, linear)
                  IN \/ linear = kInvalidLinearIndex
                     \/ ~(/\ decoded.valid
                          /\ decoded.in_bounds
                          /\ decoded.m = c[2]
                          /\ decoded.n = c[3]
                          /\ decoded.l = c[1])}),
           inBoundsCount |->
             Cardinality({linear \in 0..(r.total_tiles_ - 1) :
                            JsDecode(r, linear).in_bounds})]

\* renderAll: of its four renderers renderTileMap alone touches `state`, by its
\* call of getBatchData(state.batch); `now` is the state when it is called.
renderAll(s) ==
  CHOOSE rendered \in {[now EXCEPT !.batchCache = getBatchData(now, now.batch)] :
                         now \in {s}} : TRUE

currentLinearIndex(s) == s.batch * s.rasterizer.tiles_per_batch_ + s.localLinearIndex

stopPlayback(s) ==
  [s EXCEPT !.intervals = IF s.timer # NoTimer THEN @ \ {s.timer} ELSE @,
            !.timer = NoTimer,
            !.playing = FALSE]

\* setInterval returns an id that no live interval has.
setInterval(intervals) == CHOOSE id \in 1..(Cardinality(intervals) + 1) : id \notin intervals

\* startPlayback that does not stop the playback under way.
startPlayback_unstopped(s) ==
  LET id == setInterval(s.intervals)
  IN [s EXCEPT !.playing = TRUE, !.timer = id, !.intervals = @ \cup {id}]

\* The period read from the speed field orders no events of the model and is
\* not kept.
startPlayback(s) ==
  LET stopped == stopPlayback(s)
      id == setInterval(stopped.intervals)
  IN [stopped EXCEPT !.playing = TRUE, !.timer = id, !.intervals = @ \cup {id}]

\* The interval callback that moves the cursor past the end of a batch into
\* the same batch.
intervalCallback_same_batch(s) ==
  LET next == s.localLinearIndex + 1
  IN renderAll(IF next >= s.rasterizer.tiles_per_batch_
               THEN [s EXCEPT !.localLinearIndex = 0]
               ELSE [s EXCEPT !.localLinearIndex = next])

\* The callback startPlayback hands to setInterval.
intervalCallback(s) ==
  LET next == s.localLinearIndex + 1
  IN renderAll(IF next >= s.rasterizer.tiles_per_batch_
               THEN [s EXCEPT !.localLinearIndex = 0,
                              !.batch = JsRem(s.batch + 1, s.rasterizer.logical_.batches)]
               ELSE [s EXCEPT !.localLinearIndex = next])

\* rebuildMapping that keeps the cache of the rasterizer it replaces.
rebuildMapping_keep_cache(s, f) ==
  LET stopped == stopPlayback(s)
      problem == ProblemShape(readInt(f.tilesM, 8, 1, 256),
                              readInt(f.tilesN, 16, 1, 256),
                              readInt(f.batches, 1, 1, 8))
      cluster == ClusterShape(readInt(f.clusterM, 1, 1, 8), readInt(f.clusterN, 2, 1, 8))
      options == Options(readInt(f.maxSwizzle, 2, 1, 8), f.rasterOrder)
      r == JsInit(problem, cluster, options)
  IN renderAll([stopped EXCEPT
       !.rasterizer = r,
       !.selfCheck = runSelfCheck(r),
       !.batch = clamp(stopped.batch, 0, problem.batches - 1),
       !.localLinearIndex =
          clamp(stopped.localLinearIndex, 0, JsMax(0, r.tiles_per_batch_ - 1))])

\* rebuildMapping, reading the fields f of the page.
rebuildMapping(s, f) ==
  LET stopped == stopPlayback(s)
      problem == ProblemShape(readInt(f.tilesM, 8, 1, 256),
                              readInt(f.tilesN, 16, 1, 256),
                              readInt(f.batches, 1, 1, 8))
      cluster == ClusterShape(readInt(f.clusterM, 1, 1, 8), readInt(f.clusterN, 2, 1, 8))
      options == Options(readInt(f.maxSwizzle, 2, 1, 8), f.rasterOrder)
      r == JsInit(problem, cluster, options)
  IN renderAll([stopped EXCEPT
       !.rasterizer = r,
       !.batchCache = <<>>,
       !.selfCheck = runSelfCheck(r),
       !.batch = clamp(stopped.batch, 0, problem.batches - 1),
       !.localLinearIndex =
          clamp(stopped.localLinearIndex, 0, JsMax(0, r.tiles_per_batch_ - 1))])

\* The `state` literal, and no interval.
StateLiteral ==
  [loaded |-> TRUE,
   rasterizer |-> JsNone,
   localLinearIndex |-> 0,
   batch |-> 0,
   playing |-> FALSE,
   timer |-> NoTimer,
   batchCache |-> <<>>,
   selfCheck |-> JsNone,
   intervals |-> {}]

\* The script of the page has not run.
UiIdle == [loaded |-> FALSE]

\* Rasterizer() = default: every field holds its member initialiser.
Init ==
  /\ rz = DefaultRasterizer
  /\ configured = FALSE
  /\ call = NoCall
  /\ test = TestIdle
  /\ hist = NoHistory
  /\ thr = [t \in Threads |-> ThreadIdle]
  /\ js = JsNone
  /\ ui = UiIdle

\* Rasterizer(problem, cluster, options): the constructor runs init, once.
Construct ==
  /\ ~configured
  /\ call.op = "none"
  /\ \E tm \in TileCounts, tn \in TileCounts, b \in BatchCounts,
        cm \in ClusterExtents, cn \in ClusterExtents,
        s \in SwizzleArgs, o \in RasterOrderOption :
       LET problem == ProblemShape(tm, tn, b)
           cluster == ClusterShape(cm, cn)
           options == Options(s, o)
       IN /\ rz' = init(problem, cluster, options)
          /\ call' = [NoCall EXCEPT !.op = "init",
                                    !.problem = problem,
                                    !.cluster = cluster,
                                    !.options = options,
                                    !.capped_max_swizzle = clamp_max_swizzle(s)]
  /\ configured' = TRUE
  /\ UNCHANGED others

CallDecode ==
  /\ call.op = "none"
  /\ \E linear_idx \in 0..(rz.total_tiles_ + 1) :
       LET ds == decode_divisors(rz, linear_idx)
       IN \E out \in (IF 0 \in ds THEN UndefinedCoords ELSE {decode(rz, linear_idx)}) :
            call' = [NoCall EXCEPT !.op = "decode",
                                   !.linear_idx = linear_idx,
                                   !.divisors = ds,
                                   !.coord = out]
  /\ UNCHANGED <<rz, configured>>
  /\ UNCHANGED others

CallEncode ==
  /\ call.op = "none"
  /\ \E tile_m \in 0..rz.padded_.tiles_m, tile_n \in 0..rz.padded_.tiles_n,
        tile_l \in 0..rz.logical_.batches, allow_padded \in BOOLEAN :
       LET ds == encode_divisors(rz, tile_m, tile_n, tile_l, allow_padded)
       IN \E ret \in (IF 0 \in ds THEN UndefinedIndices
                      ELSE {encode(rz, tile_m, tile_n, tile_l, allow_padded)}) :
            call' = [NoCall EXCEPT !.op = "encode",
                                   !.tile_m = tile_m,
                                   !.tile_n = tile_n,
                                   !.tile_l = tile_l,
                                   !.allow_padded = allow_padded,
                                   !.divisors = ds,
                                   !.linear = ret]
  /\ UNCHANGED <<rz, configured>>
  /\ UNCHANGED others

\* The caller consumes the result; the instance is at rest again.
Return ==
  /\ call.op # "none"
  /\ call' = NoCall
  /\ UNCHANGED <<rz, configured>>
  /\ UNCHANGED others

Next == Construct \/ CallDecode \/ CallEncode \/ Return

Spec == Init /\ [][Next]_vars

(***************************************************************************)
(* The self test: main() of rasterization.cu, one loop iteration per step. *)
(***************************************************************************)
SelfTestProblem == ProblemShape(127, 93, 2)

SelfTestCluster == ClusterShape(2, 2)

SelfTestOptions == Options(8, "Heuristic")

\* Rasterizer rasterizer(problem, cluster, options); mismatches = 0; the first
\* loop is entered (all three extents of the problem are positive).
SelfTestConstruct ==
  /\ test.pc = "idle"
  /\ ~configured
  /\ rz' = init(SelfTestProblem, SelfTestCluster, SelfTestOptions)
  /\ configured' = TRUE
  /\ test' = [pc |-> "round_trip", l |-> 0, m |-> 0, n |-> 0, linear |-> 0,
              mismatches |-> 0, in_bounds_count |-> 0]
  /\ UNCHANGED <<call, hist, thr, js, ui>>

\* One iteration of the innermost loop: encode (m, n, l), decode the result,
\* count a mismatch, advance n, then m, then l; after the last tile the second
\* loop starts at linear = 0.
SelfTestRoundTrip ==
  /\ test.pc = "round_trip"
  /\ LET linear == encode(rz, test.m, test.n, test.l, FALSE)
         decoded == decode(rz, linear)
         ok == /\ linear # kInvalidLinearIndex
               /\ decoded.valid /\ decoded.in_bounds
               /\ decoded.m = test.m /\ decoded.n = test.n /\ decoded.l = test.l
         mismatches == IF ok THEN test.mismatches ELSE test.mismatches + 1
         last_n == test.n + 1 >= SelfTestProblem.tiles_n
         last_m == test.m + 1 >= SelfTestProblem.tiles_m
         last_l == test.l + 1 >= SelfTestProblem.batches
     IN test' =
          IF ~last_n
          THEN [test EXCEPT !.n = test.n + 1, !.mismatches = mismatches]
          ELSE IF ~last_m
          THEN [test EXCEPT !.n = 0, !.m = test.m + 1, !.mismatches = mismatches]
          ELSE IF ~last_l
          THEN [test EXCEPT !.n = 0, !.m = 0, !.l = test.l + 1,
                            !.mismatches = mismatches]
          ELSE [test EXCEPT !.pc = "count", !.linear = 0,
                            !.mismatches = mismatches]
  /\ UNCHANGED <<rz, configured, call, hist, thr, js, ui>>

\* One iteration of the second loop: decode(linear), count it when in bounds.
SelfTestCount ==
  /\ test.pc = "count"
  /\ test.linear < rz.total_tiles_
  /\ test' = [test EXCEPT
                !.linear = test.linear + 1,
                !.in_bounds_count =
                  IF decode(rz, test.linear).in_bounds
                  THEN test.in_bounds_count + 1 ELSE test.in_bounds_count]
  /\ UNCHANGED <<rz, configured, call, hist, thr, js, ui>>

\* The second loop ends; the two asserts are evaluated.
SelfTestAssert ==
  /\ test.pc = "count"
  /\ test.linear >= rz.total_tiles_
  /\ test' = [test EXCEPT
                !.pc = IF /\ test.in_bounds_count = logical_tile_count(rz)
                          /\ test.mismatches = 0
                       THEN "passed" ELSE "aborted"]
  /\ UNCHANGED <<rz, configured, call, hist, thr, js, ui>>

NextSelfTest ==
  SelfTestConstruct \/ SelfTestRoundTrip \/ SelfTestCount \/ SelfTestAssert

SpecSelfTest == Init /\ [][NextSelfTest]_vars

(***************************************************************************)
(* The life of one instance: init called again and again on it, decode and *)
(* encode calls in between, each call possibly made a second time.        *)
(***************************************************************************)
MaxTilesLife == 2

MaxBatchesLife == 1

MaxClusterLife == 1

MaxSwizzleLife == 2

\* The call record decode(linear_idx) leaves on instance r.
DecodeCalls(r, linear_idx) ==
  LET ds == decode_divisors(r, linear_idx)
  IN {[NoCall EXCEPT !.op = "decode",
                     !.linear_idx = linear_idx,
                     !.divisors = ds,
                     !.coord = out] :
        out \in (IF 0 \in ds THEN UndefinedCoords ELSE {decode(r, linear_idx)})}

\* The call record encode(tile_m, tile_n, tile_l, allow_padded) leaves.
EncodeCalls(r, tile_m, tile_n, tile_l, allow_padded) ==
  LET ds == encode_divisors(r, tile_m, tile_n, tile_l, allow_padded)
  IN {[NoCall EXCEPT !.op = "encode",
                     !.tile_m = tile_m,
                     !.tile_n = tile_n,
                     !.tile_l = tile_l,
                     !.allow_padded = allow_padded,
                     !.divisors = ds,
                     !.linear = ret] :
        ret \in (IF 0 \in ds THEN UndefinedIndices
                 ELSE {encode(r, tile_m, tile_n, tile_l, allow_padded)})}

\* rasterizer.init(problem, cluster, options) on the instance as it is.
\* hist.inits counts the init calls made so far (2 stands for two or more);
\* hist.changed records that this init found the instance in another state
\* than the one a fresh instance with these arguments has.
LifeInit ==
  /\ call.op = "none"
  /\ hist.prev.op = "none"
  /\ \E tm \in 0..MaxTilesLife, tn \in 0..MaxTilesLife, b \in 1..MaxBatchesLife,
        cm \in 0..MaxClusterLife, cn \in 0..MaxClusterLife,
        s \in 1..MaxSwizzleLife, o \in RasterOrderOption :
       LET problem == ProblemShape(tm, tn, b)
           cluster == ClusterShape(cm, cn)
           options == Options(s, o)
       IN /\ rz' = init_on(rz, problem, cluster, options)
          /\ call' = [NoCall EXCEPT !.op = "init",
                                    !.problem = problem,
                                    !.cluster = cluster,
                                    !.options = options,
                                    !.capped_max_swizzle = clamp_max_swizzle(s)]
          /\ hist' = [hist EXCEPT
                        !.inits = IF @ < 2 THEN @ + 1 ELSE @,
                        !.changed = (rz # init(problem, cluster, options))]
  /\ configured' = TRUE
  /\ UNCHANGED <<test, thr, js, ui>>

LifeDecodeConsuming ==
  /\ call.op = "none"
  /\ hist.prev.op = "none"
  /\ \E linear_idx \in 0..(rz.total_tiles_ + 1) :
       call' \in DecodeCalls(rz, linear_idx)
  /\ rz' = [rz EXCEPT !.total_tiles_ = IF @ > 0 THEN @ - 1 ELSE @]
  /\ UNCHANGED <<configured, test, hist, thr, js, ui>>

\* decode is a const member: it assigns no field.
LifeDecode ==
  /\ call.op = "none"
  /\ hist.prev.op = "none"
  /\ \E linear_idx \in 0..(rz.total_tiles_ + 1) :
       call' \in DecodeCalls(rz, linear_idx)
  /\ rz' = rz
  /\ UNCHANGED <<configured, test, hist, thr, js, ui>>

\* encode is a const member: it assigns no field.
LifeEncode ==
  /\ call.op = "none"
  /\ hist.prev.op = "none"
  /\ \E tile_m \in 0..rz.padded_.tiles_m, tile_n \in 0..rz.padded_.tiles_n,
        tile_l \in 0..rz.logical_.batches, allow_padded \in BOOLEAN :
       call' \in EncodeCalls(rz, tile_m, tile_n, tile_l, allow_padded)
  /\ rz' = rz
  /\ UNCHANGED <<configured, test, hist, thr, js, ui>>

\* The caller takes the result; a first decode or encode call is remembered
\* so that it can be made again.
LifeReturn ==
  /\ call.op # "none"
  /\ call' = NoCall
  /\ hist' = [hist EXCEPT
                !.prev = IF call.op \in {"decode", "encode"} /\ ~hist.repeated
                         THEN call ELSE NoPrev,
                !.repeated = FALSE,
                !.changed = FALSE]
  /\ UNCHANGED <<rz, configured, test, thr, js, ui>>

\* The remembered call is made again with the same arguments, no init in
\* between.
LifeRepeat ==
  /\ call.op = "none"
  /\ hist.prev.op # "none"
  /\ call' \in (IF hist.prev.op = "decode"
                THEN DecodeCalls(rz, hist.prev.linear_idx)
                ELSE EncodeCalls(rz, hist.prev.tile_m, hist.prev.tile_n,
                                 hist.prev.tile_l, hist.prev.allow_padded))
  /\ hist' = [hist EXCEPT !.repeated = TRUE]
  /\ UNCHANGED <<rz, configured, test, thr, js, ui>>

NextLifecycle ==
  LifeInit \/ LifeDecode \/ LifeEncode \/ LifeReturn \/ LifeRepeat

SpecLifecycle == Init /\ [][NextLifecycle]_vars

(***************************************************************************)
(* Several threads calling decode and encode on one constructed instance.  *)
(* A call takes up to three steps: the early returns and the split of the  *)
(* index (or coordinate), the swizzle helper, and the combination; each    *)
(* step reads the fields of the instance as they are when it runs.         *)
(***************************************************************************)
ConcurrentConfigs ==
  {<<ProblemShape(2, 2, 1), ClusterShape(1, 1), Options(2, "Heuristic")>>,
   <<ProblemShape(2, 3, 1), ClusterShape(1, 1), Options(2, "Heuristic")>>,
   <<ProblemShape(1, 2, 2), ClusterShape(1, 2), Options(1, "AlongN")>>,
   <<ProblemShape(0, 2, 1), ClusterShape(1, 1), Options(1, "AlongM")>>}

\* The instance has been constructed; no thread has called yet.
InitConcurrent ==
  /\ \E cfg \in ConcurrentConfigs : rz = init(cfg[1], cfg[2], cfg[3])
  /\ configured = TRUE
  /\ call = NoCall
  /\ test = TestIdle
  /\ hist = NoHistory
  /\ thr = [t \in Threads |-> ThreadIdle]
  /\ js = JsNone
  /\ ui = UiIdle

\* decode up to the call of decode_swizzled_cluster_id.
ThreadCallDecode(t) ==
  /\ thr[t].pc = "idle"
  /\ \E linear_idx \in 0..rz.total_tiles_ :
       thr' = [thr EXCEPT ![t] =
         IF ~has_valid_extent(rz) \/ linear_idx >= rz.total_tiles_
         THEN [ThreadLocals EXCEPT !.pc = "done", !.op = "decode",
                                 !.linear_idx = linear_idx]
         ELSE LET idx_in_batch == linear_idx % rz.tiles_per_batch_
                  blk_per_grid_dim == idx_in_batch \div rz.cluster_minor_
              IN [ThreadLocals EXCEPT
                    !.pc = "swizzle", !.op = "decode",
                    !.linear_idx = linear_idx,
                    !.l = linear_idx \div rz.tiles_per_batch_,
                    !.minor_offset = idx_in_batch % rz.cluster_minor_,
                    !.cluster_id_swizzled = blk_per_grid_dim \div rz.cluster_major_,
                    !.major_offset = blk_per_grid_dim % rz.cluster_major_]]
  /\ UNCHANGED <<rz, configured, call, test, hist, js, ui>>

\* encode up to the call of encode_swizzled_cluster_id.
ThreadCallEncode(t) ==
  /\ thr[t].pc = "idle"
  /\ \E tile_m \in 0..(rz.padded_.tiles_m - 1),
        tile_n \in 0..(rz.padded_.tiles_n - 1),
        tile_l \in 0..rz.logical_.batches, allow_padded \in BOOLEAN :
       LET args == [ThreadLocals EXCEPT !.op = "encode",
                                      !.tile_m = tile_m, !.tile_n = tile_n,
                                      !.tile_l = tile_l,
                                      !.allow_padded = allow_padded]
           bound_m == IF allow_padded THEN rz.padded_.tiles_m
                      ELSE rz.logical_.tiles_m
           bound_n == IF allow_padded THEN rz.padded_.tiles_n
                      ELSE rz.logical_.tiles_n
       IN thr' = [thr EXCEPT ![t] =
            IF \/ ~has_valid_extent(rz)
               \/ tile_l >= rz.logical_.batches
               \/ tile_m >= bound_m \/ tile_n >= bound_n
            THEN [args EXCEPT !.pc = "done"]
            ELSE LET major == IF rz.raster_order_ = "AlongN" THEN tile_n ELSE tile_m
                     minor == IF rz.raster_order_ = "AlongN" THEN tile_m ELSE tile_n
                 IN [args EXCEPT
                       !.pc = "swizzle",
                       !.cluster_major_idx = major \div rz.cluster_major_,
                       !.cluster_minor_idx = minor \div rz.cluster_minor_,
                       !.major_offset = major % rz.cluster_major_,
                       !.minor_offset = minor % rz.cluster_minor_]]
  /\ UNCHANGED <<rz, configured, call, test, hist, js, ui>>

swizzle_step_shared(threads, t, r) ==
  IF threads[t].op = "decode"
  THEN LET idx == decode_swizzled_cluster_id(r, threads[t].cluster_id_swizzled)
       IN [u \in DOMAIN threads |->
             IF threads[u].pc = "idle" THEN threads[u]
             ELSE [threads[u] EXCEPT
                     !.pc = IF u = t THEN "combine" ELSE @,
                     !.cluster_major_idx = idx.cluster_major_idx,
                     !.cluster_minor_idx = idx.cluster_minor_idx]]
  ELSE LET id == encode_swizzled_cluster_id(r, threads[t].cluster_major_idx,
                                               threads[t].cluster_minor_idx)
       IN [u \in DOMAIN threads |->
             IF threads[u].pc = "idle" THEN threads[u]
             ELSE [threads[u] EXCEPT
                     !.pc = IF u = t THEN "combine" ELSE @,
                     !.cluster_id_swizzled = id]]

\* The swizzle helper called by thread t: its results go to the caller's own
\* locals (reference parameters of decode_swizzled_cluster_id, the return
\* value of encode_swizzled_cluster_id).
swizzle_step(threads, t, r) ==
  IF threads[t].op = "decode"
  THEN LET idx == decode_swizzled_cluster_id(r, threads[t].cluster_id_swizzled)
       IN [threads EXCEPT ![t] =
             [@ EXCEPT !.pc = "combine",
                       !.cluster_major_idx = idx.cluster_major_idx,
                       !.cluster_minor_idx = idx.cluster_minor_idx]]
  ELSE LET id == encode_swizzled_cluster_id(r, threads[t].cluster_major_idx,
                                               threads[t].cluster_minor_idx)
       IN [threads EXCEPT ![t] =
             [@ EXCEPT !.pc = "combine", !.cluster_id_swizzled = id]]

ThreadSwizzle(t) ==
  /\ thr[t].pc = "swizzle"
  /\ thr' = swizzle_step(thr, t, rz)
  /\ UNCHANGED <<rz, configured, call, test, hist, js, ui>>

\* The rest of decode or encode, from the helper's results to the return
\* value.
ThreadCombine(t) ==
  /\ thr[t].pc = "combine"
  /\ thr' = [thr EXCEPT ![t] =
       IF thr[t].op = "decode"
       THEN LET major == thr[t].cluster_major_idx * rz.cluster_major_
                           + thr[t].major_offset
                minor == thr[t].cluster_minor_idx * rz.cluster_minor_
                           + thr[t].minor_offset
                m == IF rz.raster_order_ = "AlongN" THEN minor ELSE major
                n == IF rz.raster_order_ = "AlongN" THEN major ELSE minor
            IN [@ EXCEPT !.pc = "done",
                         !.coord = [m |-> m, n |-> n, l |-> thr[t].l,
                                    valid |-> TRUE,
                                    in_bounds |-> in_bounds(rz, m, n, thr[t].l)]]
       ELSE LET blk_per_grid_dim == thr[t].cluster_id_swizzled * rz.cluster_major_
                                      + thr[t].major_offset
                idx_in_batch == blk_per_grid_dim * rz.cluster_minor_
                                  + thr[t].minor_offset
            IN [@ EXCEPT !.pc = "done",
                         !.linear = thr[t].tile_l * rz.tiles_per_batch_
                                      + idx_in_batch]]
  /\ UNCHANGED <<rz, configured, call, test, hist, js, ui>>

\* The thread takes the returned value and is free to call again.
ThreadReturn(t) ==
  /\ thr[t].pc = "done"
  /\ thr' = [thr EXCEPT ![t] = ThreadIdle]
  /\ UNCHANGED <<rz, configured, call, test, hist, js, ui>>

ThreadStep(t) ==
  \/ ThreadCallDecode(t)
  \/ ThreadCallEncode(t)
  \/ ThreadSwizzle(t)
  \/ ThreadCombine(t)
  \/ ThreadReturn(t)

NextConcurrent == \E t \in Threads : ThreadStep(t)

SpecConcurrent == InitConcurrent /\ [][NextConcurrent]_vars

(***************************************************************************)
(* The C++ class and its JavaScript port, constructed with the same        *)
(* arguments and called with the same arguments.                           *)
(***************************************************************************)
MaxTilesPort == 8

MaxBatchesPort == 1

MaxClusterPort == 1

MaxSwizzlePort == 2

\* Rasterizer(problem, cluster, options) and new Rasterizer(problem, cluster,
\* options).
PortConstruct ==
  /\ ~configured
  /\ call.op = "none"
  /\ \E tm \in 0..MaxTilesPort, tn \in 0..MaxTilesPort, b \in 0..MaxBatchesPort,
        cm \in 0..MaxClusterPort, cn \in 0..MaxClusterPort,
        s \in 0..MaxSwizzlePort, o \in RasterOrderOption :
       LET problem == ProblemShape(tm, tn, b)
           cluster == ClusterShape(cm, cn)
           options == Options(s, o)
       IN /\ rz' = init(problem, cluster, options)
          /\ js' = [made |-> TRUE,
                    rasterizer |-> JsInit(problem, cluster, options),
                    coord |-> TileCoord,
                    linear |-> kInvalidLinearIndex]
          /\ call' = [NoCall EXCEPT !.op = "init",
                                    !.problem = problem,
                                    !.cluster = cluster,
                                    !.options = options,
                                    !.capped_max_swizzle = clamp_max_swizzle(s)]
  /\ configured' = TRUE
  /\ UNCHANGED <<test, hist, thr, ui>>

\* rasterizer.decode(linear_idx) and rasterizer.decode(linearIdx).
PortDecode ==
  /\ configured
  /\ call.op = "none"
  /\ \E linear_idx \in 0..rz.total_tiles_ :
       /\ call' \in DecodeCalls(rz, linear_idx)
       /\ js' = [js EXCEPT !.coord = JsDecode(js.rasterizer, linear_idx)]
  /\ UNCHANGED <<rz, configured, test, hist, thr, ui>>

\* rasterizer.encode(m, n, l, allow_padded) and rasterizer.encode(tileM,
\* tileN, tileL, allowPadded).
PortEncode ==
  /\ configured
  /\ call.op = "none"
  /\ \E tile_m \in 0..rz.padded_.tiles_m, tile_n \in 0..rz.padded_.tiles_n,
        tile_l \in 0..rz.logical_.batches, allow_padded \in BOOLEAN :
       /\ call' \in EncodeCalls(rz, tile_m, tile_n, tile_l, allow_padded)
       /\ js' = [js EXCEPT !.linear =
                   JsEncode(js.rasterizer, tile_m, tile_n, tile_l, allow_padded)]
  /\ UNCHANGED <<rz, configured, test, hist, thr, ui>>

\* Both results are taken.
PortReturn ==
  /\ call.op # "none"
  /\ call' = NoCall
  /\ js' = [js EXCEPT !.coord = TileCoord, !.linear = kInvalidLinearIndex]
  /\ UNCHANGED <<rz, configured, test, hist, thr, ui>>

NextPort == PortConstruct \/ PortDecode \/ PortEncode \/ PortReturn

SpecPort == Init /\ [][NextPort]_vars

(***************************************************************************)
(* init in unsigned arithmetic of a fixed width.  The tile counts, the     *)
(* cluster extents and the alignment are uint32_t, whose arithmetic wraps  *)
(* modulo 2^32.  TLC's integers end at 2^31 - 1, so the width is scaled    *)
(* down: UintBits stands for the 32 bits of uint32_t.  Where no            *)
(* intermediate value reaches 2^UintBits, round_up_uint32 and init_uint32  *)
(* are round_up and init.                                                  *)
(***************************************************************************)
UintBits == 6

\* The largest value of the unsigned type.
UintMax == Pow2(UintBits) - 1

\* The value an unsigned expression has after wrapping.
Uint32(x) == x % Pow2(UintBits)

round_up_uint32(value, multiple) ==
  IF multiple = 0 THEN value
  ELSE Uint32((Uint32(Uint32(value + multiple) - 1) \div multiple) * multiple)

\* init with the widths of its locals and fields: align_m, align_n and the
\* padded tile counts are uint32_t; the two tile totals are uint64_t, wide
\* enough for every product of the fields.
init_uint32(problem, cluster, options) ==
  LET cluster_ == ClusterShape(IF cluster.m = 0 THEN 1 ELSE cluster.m,
                               IF cluster.n = 0 THEN 1 ELSE cluster.n)
      capped_max_swizzle == clamp_max_swizzle(options.max_swizzle_size)
      log_swizzle_size_ ==
        select_log_swizzle_size(problem.tiles_m, problem.tiles_n, capped_max_swizzle)
      swizzle_size_ == ShiftLeft(1, log_swizzle_size_)
      align_m == Uint32(swizzle_size_ * cluster_.m)
      align_n == Uint32(swizzle_size_ * cluster_.n)
      padded_ == ProblemShape(round_up_uint32(problem.tiles_m, align_m),
                              round_up_uint32(problem.tiles_n, align_n),
                              problem.batches)
      raster_order_ ==
        select_raster_order(padded_.tiles_m, padded_.tiles_n, options.raster_order)
      tiles_per_batch_ == padded_.tiles_m * padded_.tiles_n
  IN [logical_ |-> problem,
      padded_ |-> padded_,
      cluster_ |-> cluster_,
      raster_order_ |-> raster_order_,
      swizzle_size_ |-> swizzle_size_,
      log_swizzle_size_ |-> log_swizzle_size_,
      cluster_major_ |-> IF raster_order_ = "AlongN" THEN cluster_.n ELSE cluster_.m,
      cluster_minor_ |-> IF raster_order_ = "AlongN" THEN cluster_.m ELSE cluster_.n,
      clusters_along_major_ |->
        IF raster_order_ = "AlongN"
        THEN (IF cluster_.n = 0 THEN 0 ELSE padded_.tiles_n \div cluster_.n)
        ELSE (IF cluster_.m = 0 THEN 0 ELSE padded_.tiles_m \div cluster_.m),
      tiles_per_batch_ |-> tiles_per_batch_,
      total_tiles_ |-> tiles_per_batch_ * padded_.batches]

\* Extents at both ends of the unsigned range.
UintEdge == {0, 1, 2, Pow2(UintBits - 1), UintMax - 1, UintMax}

\* Rasterizer(problem, cluster, options) with arguments over the whole range
\* of their type.
WrapConstruct ==
  /\ ~configured
  /\ call.op = "none"
  /\ \E tm \in 0..UintMax, tn \in UintEdge, cm \in UintEdge, cn \in UintEdge,
        s \in {1, 2, 8} :
       LET problem == ProblemShape(tm, tn, 1)
           cluster == ClusterShape(cm, cn)
           options == Options(s, "Heuristic")
       IN /\ rz' = init_uint32(problem, cluster, options)
          /\ call' = [NoCall EXCEPT !.op = "init",
                                    !.problem = problem,
                                    !.cluster = cluster,
                                    !.options = options,
                                    !.capped_max_swizzle = clamp_max_swizzle(s)]
  /\ configured' = TRUE
  /\ UNCHANGED others

\* The constructor returns.
WrapReturn ==
  /\ call.op = "init"
  /\ call' = NoCall
  /\ UNCHANGED <<rz, configured>>
  /\ UNCHANGED others

NextWrap == WrapConstruct \/ WrapReturn

SpecWrap == Init /\ [][NextWrap]_vars

(***************************************************************************)
(* The page of app.js as a machine: the script runs rebuildMapping once,   *)
(* then the browser runs one event handler or interval callback at a time, *)
(* each to its end.  `ui` is the `state` object with the set of live       *)
(* intervals of the browser.                                               *)
(***************************************************************************)
MaxTilesUi == 2
MaxBatchesUi == 2
MaxIndexUi == 16

\* The decimal texts of the integers lo..hi.
NumberTexts(lo, hi) == {DecimalText(n) : n \in lo..hi}

\* Texts of the tile-count fields (readInt raises "0" to 1), of the
\* batch-count field (readInt falls back to 1 for the empty text) and of the
\* batch and linear-index fields (empty, signed, and with text after the
\* digits).
TilesTexts == {<<"0">>, DecimalText(MaxTilesUi)}
BatchesTexts == {<<>>, DecimalText(MaxBatchesUi)}
BatchTexts == {<<>>, <<"1", "x">>} \cup NumberTexts(0 - 1, MaxBatchesUi)
LinearIndexTexts == {<<>>, <<"+", "2">>} \cup NumberTexts(0 - 1, MaxIndexUi)

\* Cluster, swizzle and raster-order fields: left empty (readInt falls back
\* to 1, 2 and 2), or filled in.
PageClusterings ==
  {[clusterM |-> <<>>, clusterN |-> <<>>, maxSwizzle |-> <<>>, rasterOrder |-> "Heuristic"],
   [clusterM |-> <<"2">>, clusterN |-> <<"1">>, maxSwizzle |-> <<"1">>, rasterOrder |-> "AlongM"],
   [clusterM |-> <<"2">>, clusterN |-> <<"2">>, maxSwizzle |-> <<"3">>, rasterOrder |-> "AlongN"]}

PageFields ==
  {[tilesM |-> tm, tilesN |-> tn, batches |-> b,
    clusterM |-> c.clusterM, clusterN |-> c.clusterN,
    maxSwizzle |-> c.maxSwizzle, rasterOrder |-> c.rasterOrder] :
     tm \in TilesTexts, tn \in TilesTexts, b \in BatchesTexts, c \in PageClusterings}

UiUnchanged == UNCHANGED <<rz, configured, call, test, hist, thr, js>>

\* The last statements of the script: initializeTheme() and rebuildMapping().
PageLoad ==
  /\ ui = UiIdle
  /\ \E f \in PageFields : ui' = rebuildMapping(StateLiteral, f)
  /\ UiUnchanged

\* click on the rebuild button.
RebuildClick ==
  /\ ui.loaded
  /\ \E f \in PageFields : ui' = rebuildMapping(ui, f)
  /\ UiUnchanged

\* click on the play/pause button.
PlayPauseClick ==
  /\ ui.loaded
  /\ ui' = IF ui.playing THEN stopPlayback(ui) ELSE startPlayback(ui)
  /\ UiUnchanged

\* input on the speed field.
SpeedInput ==
  /\ ui.loaded
  /\ ui' = IF ui.playing THEN startPlayback(ui) ELSE ui
  /\ UiUnchanged

\* input on the batch field.
BatchInput ==
  /\ ui.loaded
  /\ \E text \in BatchTexts :
       ui' = renderAll([ui EXCEPT !.batch =
               readInt(text, 0, 0, JsMax(0, ui.rasterizer.logical_.batches - 1))])
  /\ UiUnchanged

\* input on the linear-index field.
LinearIndexInput ==
  /\ ui.loaded
  /\ \E text \in LinearIndexTexts :
       ui' = renderAll([ui EXCEPT !.localLinearIndex =
               readInt(text, 0, 0, JsMax(0, ui.rasterizer.tiles_per_batch_ - 1))])
  /\ UiUnchanged

\* A live interval fires its callback.
IntervalTick ==
  /\ ui.loaded
  /\ ui.intervals # {}
  /\ ui' = intervalCallback(ui)
  /\ UiUnchanged

\* click on the theme toggle: applyTheme flips the theme attribute of the
\* document, which is no part of `state`, and renders again.
ThemeToggleClick ==
  /\ ui.loaded
  /\ ui' = renderAll(ui)
  /\ UiUnchanged

NextUi ==
  \/ PageLoad
  \/ RebuildClick
  \/ PlayPauseClick
  \/ SpeedInput
  \/ BatchInput
  \/ LinearIndexInput
  \/ IntervalTick
  \/ ThemeToggleClick

SpecUi == Init /\ [][NextUi]_vars

\* The page left playing: the cursor is placed while the playback is off, the
\* playback is started, and from then on only the theme is toggled.  A live
\* interval keeps firing.
PausedInput == ui.loaded /\ ~ui.playing /\ (BatchInput \/ LinearIndexInput)

PlayClick == ui.loaded /\ ~ui.playing /\ PlayPauseClick

NextPlayback ==
  \/ PageLoad
  \/ PausedInput
  \/ PlayClick
  \/ IntervalTick
  \/ ThemeToggleClick

SpecPlayback == Init /\ [][NextPlayback]_vars /\ WF_vars(IntervalTick)

(***************************************************************************)
(* Properties.                                                              *)
(***************************************************************************)
Coords(c) == <<c.m, c.n, c.l>>

PhysicalIndices(r) == 0..(r.total_tiles_ - 1)

PaddedCoords(r) ==
  (0..(r.padded_.tiles_m - 1)) \X (0..(r.padded_.tiles_n - 1)) \X
  (0..(r.padded_.batches - 1))

AtRest == call.op = "none"

\* C1: with a valid extent, for every linear index i < total_tiles, encoding
\* the coordinate that decode(i) returned, with allow_padded = true, gives i.
C1_EncodeOfDecode ==
  (call.op = "decode" /\ has_valid_extent(rz) /\ call.linear_idx < rz.total_tiles_)
    => encode(rz, call.coord.m, call.coord.n, call.coord.l, TRUE) = call.linear_idx

\* A padding tile of the second batch of an 8-swizzled grid has been decoded.
C1_Witness ==
  /\ call.op = "decode"
  /\ has_valid_extent(rz)
  /\ call.linear_idx < rz.total_tiles_
  /\ rz.swizzle_size_ = 8
  /\ rz.cluster_ = ClusterShape(2, 1)
  /\ call.coord.l = 1
  /\ call.coord.valid /\ ~call.coord.in_bounds

\* C2: for every logical coordinate (m, n, l), encode(m, n, l, false) is not
\* the sentinel, and decode of the index it returned is valid, in bounds and
\* gives (m, n, l) back.
C2_DecodeOfEncode ==
  (/\ call.op = "encode"
   /\ ~call.allow_padded
   /\ call.tile_m < rz.logical_.tiles_m
   /\ call.tile_n < rz.logical_.tiles_n
   /\ call.tile_l < rz.logical_.batches)
    => /\ call.linear # kInvalidLinearIndex
       /\ decode(rz, call.linear) =
            [m |-> call.tile_m, n |-> call.tile_n, l |-> call.tile_l,
             valid |-> TRUE, in_bounds |-> TRUE]

\* The last logical tile of a padded, swizzled, 1x2-clustered problem has been
\* encoded.
C2_Witness ==
  /\ call.op = "encode"
  /\ ~call.allow_padded
  /\ call.tile_m = rz.logical_.tiles_m - 1
  /\ call.tile_n = rz.logical_.tiles_n - 1
  /\ call.tile_l = rz.logical_.batches - 1
  /\ call.tile_l = 1
  /\ rz.swizzle_size_ = 4
  /\ rz.cluster_ = ClusterShape(1, 2)
  /\ rz.padded_ # rz.logical_
  /\ call.linear # kInvalidLinearIndex

\* C3: with a valid extent, decode restricted to [0, total_tiles) is one-to-one
\* and onto the padded coordinate space: the decoded coordinates are exactly
\* the coordinates of the padded space, and there are total_tiles of them.
\* (Evaluated once per configuration, when the instance is at rest.)
C3_DecodeBijective ==
  (AtRest /\ has_valid_extent(rz))
    => LET image == {Coords(decode(rz, i)) : i \in PhysicalIndices(rz)}
       IN /\ image = PaddedCoords(rz)
          /\ Cardinality(image) = rz.total_tiles_

\* A constructed, padded, 4-swizzled, 2x2-clustered, two-batch instance.
C3_Witness ==
  /\ AtRest
  /\ configured
  /\ has_valid_extent(rz)
  /\ rz.swizzle_size_ = 4
  /\ rz.cluster_ = ClusterShape(2, 2)
  /\ rz.padded_.tiles_m > rz.logical_.tiles_m
  /\ rz.padded_.tiles_n > rz.logical_.tiles_n
  /\ rz.padded_.batches = 2

\* C4: the number of linear indices in [0, total_tiles) that decode with
\* in_bounds = true is logical.tiles_m * logical.tiles_n * logical.batches.
\* (Evaluated once per configuration, when the instance is at rest.)
C4_InBoundsCount ==
  AtRest
    => Cardinality({i \in PhysicalIndices(rz) : decode(rz, i).in_bounds}) =
         rz.logical_.tiles_m * rz.logical_.tiles_n * rz.logical_.batches

\* A constructed instance that has padding tiles and logical tiles.
C4_Witness ==
  /\ AtRest
  /\ configured
  /\ rz.total_tiles_ > logical_tile_count(rz)
  /\ logical_tile_count(rz) > 0
  /\ rz.swizzle_size_ = 8
  /\ rz.raster_order_ = "AlongM"

SmallestMultipleAtLeast(p, v, a) ==
  /\ a > 0
  /\ p % a = 0
  /\ p >= v
  /\ p - v < a
  /\ \A k \in 0..p : (k % a = 0 /\ k >= v) => k = p

\* C5: after init, padded.tiles_m is the smallest multiple of
\* swizzle_size * cluster.m that is >= logical.tiles_m, the same holds for
\* tiles_n with cluster.n, and padded.batches = logical.batches.
C5_PaddedIsRoundUp ==
  configured
    => /\ SmallestMultipleAtLeast(rz.padded_.tiles_m, rz.logical_.tiles_m,
                                  rz.swizzle_size_ * rz.cluster_.m)
       /\ SmallestMultipleAtLeast(rz.padded_.tiles_n, rz.logical_.tiles_n,
                                  rz.swizzle_size_ * rz.cluster_.n)
       /\ rz.padded_.batches = rz.logical_.batches

\* init has padded 5 x 6 tiles to 8 x 8 (swizzle 4, cluster 2 x 1).
C5_Witness ==
  /\ call.op = "init"
  /\ call.problem = ProblemShape(5, 6, 2)
  /\ call.cluster = ClusterShape(2, 1)
  /\ rz.swizzle_size_ = 4
  /\ rz.padded_ = ProblemShape(8, 8, 2)

\* C6: decode(i) returns valid = true exactly when the extent is valid and
\* i < total_tiles; otherwise it returns, without a fault, the coordinate
\* valid = false, in_bounds = false, m = n = l = 0.
C6_DecodeValidIff ==
  call.op = "decode"
    => /\ call.coord.valid <=>
            (has_valid_extent(rz) /\ call.linear_idx < rz.total_tiles_)
       /\ ~call.coord.valid =>
            /\ call.coord = [m |-> 0, n |-> 0, l |-> 0,
                             valid |-> FALSE, in_bounds |-> FALSE]
            /\ call.divisors = {}

\* decode has been called with i = total_tiles on a valid extent.
C6_Witness ==
  /\ call.op = "decode"
  /\ has_valid_extent(rz)
  /\ call.linear_idx = rz.total_tiles_
  /\ ~call.coord.valid

EncodeBound(r, allow_padded) ==
  IF allow_padded THEN r.padded_ ELSE r.logical_

\* C7: encode returns the sentinel exactly when the extent is invalid, or
\* tile_l >= logical.batches, or tile_m or tile_n is not below its bound (the
\* logical extent, or the padded extent with allow_padded); every other
\* result lies in [0, total_tiles).
C7_EncodeSentinelIff ==
  call.op = "encode"
    => /\ (call.linear = kInvalidLinearIndex) <=>
            \/ ~has_valid_extent(rz)
            \/ call.tile_l >= rz.logical_.batches
            \/ call.tile_m >= EncodeBound(rz, call.allow_padded).tiles_m
            \/ call.tile_n >= EncodeBound(rz, call.allow_padded).tiles_n
       /\ call.linear # kInvalidLinearIndex =>
            (call.linear >= 0 /\ call.linear < rz.total_tiles_)

\* encode has been called with tile_m = padded.tiles_m and allow_padded.
C7_Witness ==
  /\ call.op = "encode"
  /\ has_valid_extent(rz)
  /\ call.allow_padded
  /\ call.tile_m = rz.padded_.tiles_m
  /\ call.tile_n < rz.padded_.tiles_n
  /\ call.tile_l < rz.logical_.batches
  /\ call.linear = kInvalidLinearIndex

ZeroExtent(r) ==
  r.logical_.tiles_m = 0 \/ r.logical_.tiles_n = 0 \/ r.logical_.batches = 0

\* C8: when logical.tiles_m, tiles_n or batches is 0 (a never-initialised
\* instance included), every decode returns valid = false and every encode
\* returns the sentinel; and no decode or encode ever evaluates a division or
\* modulo by 0.
C8_ZeroExtentFailsCleanly ==
  /\ (ZeroExtent(rz) /\ call.op = "decode") => ~call.coord.valid
  /\ (ZeroExtent(rz) /\ call.op = "encode") => call.linear = kInvalidLinearIndex
  /\ 0 \notin call.divisors

\* decode(0) has been called on a constructed instance with no tile rows but
\* whole clusters along its major axis and a batch.
C8_Witness ==
  /\ call.op = "decode"
  /\ call.linear_idx = 0
  /\ configured
  /\ rz.logical_.tiles_m = 0
  /\ rz.clusters_along_major_ > 0
  /\ rz.padded_.batches > 0
  /\ ~call.coord.valid

SwizzleCaps == {1, 2, 4, 8}

LargestCapNotAbove(s) ==
  IF \E c \in SwizzleCaps : c <= s
  THEN CHOOSE c \in SwizzleCaps :
         c <= s /\ \A d \in SwizzleCaps : d <= s => d <= c
  ELSE 1

\* C9: the effective cap is the largest value of {1,2,4,8} that does not
\* exceed options.max_swizzle_size, and 1 when that is 0 or negative;
\* 0, 1, 3, 5, 9 give 1, 1, 2, 4, 8.
C9_SwizzleClamp ==
  call.op = "init"
    => LET s == call.options.max_swizzle_size
           cap == call.capped_max_swizzle
       IN /\ cap = LargestCapNotAbove(s)
          /\ s <= 0 => cap = 1
          /\ s = 0 => cap = 1
          /\ s = 1 => cap = 1
          /\ s = 3 => cap = 2
          /\ s = 5 => cap = 4
          /\ s = 9 => cap = 8

\* init has been called with max_swizzle_size = 5.
C9_Witness ==
  /\ call.op = "init"
  /\ call.options.max_swizzle_size = 5
  /\ call.capped_max_swizzle = 4

Min(a, b) == IF a < b THEN a ELSE b

\* C10: with min_dim the smaller of logical.tiles_m and logical.tiles_n and
\* cap the effective cap, log_swizzle_size is 3 if cap >= 8 and min_dim >= 6,
\* else 2 if cap >= 4 and min_dim >= 3, else 1 if cap >= 2 and min_dim >= 2,
\* else 0; swizzle_size = 2^log_swizzle_size is in {1,2,4,8} and <= cap.
C10_SwizzleSelection ==
  call.op = "init"
    => LET min_dim == Min(rz.logical_.tiles_m, rz.logical_.tiles_n)
           cap == call.capped_max_swizzle
           log == rz.log_swizzle_size_
       IN /\ (cap >= 8 /\ min_dim >= 6) => log = 3
          /\ (~(cap >= 8 /\ min_dim >= 6) /\ cap >= 4 /\ min_dim >= 3) => log = 2
          /\ (~(cap >= 8 /\ min_dim >= 6) /\ ~(cap >= 4 /\ min_dim >= 3)
                /\ cap >= 2 /\ min_dim >= 2) => log = 1
          /\ (~(cap >= 8 /\ min_dim >= 6) /\ ~(cap >= 4 /\ min_dim >= 3)
                /\ ~(cap >= 2 /\ min_dim >= 2)) => log = 0
          /\ rz.swizzle_size_ = Pow2(log)
          /\ rz.swizzle_size_ \in {1, 2, 4, 8}
          /\ rz.swizzle_size_ <= cap

\* init has selected swizzle 8 for a problem whose larger side alone would
\* not decide it.
C10_Witness ==
  /\ call.op = "init"
  /\ call.capped_max_swizzle = 8
  /\ call.problem.tiles_m = 6
  /\ call.problem.tiles_n = 6
  /\ rz.log_swizzle_size_ = 3

\* C11: with option Heuristic the resolved order is AlongM exactly when
\* padded.tiles_n > padded.tiles_m (the padded extent is compared) and AlongN
\* otherwise, ties included; an explicit AlongM or AlongN is returned as given.
C11_RasterOrderSelection ==
  call.op = "init"
    => LET o == call.options.raster_order
       IN /\ o = "Heuristic" =>
               /\ rz.raster_order_ = "AlongM" <=>
                    rz.padded_.tiles_n > rz.padded_.tiles_m
               /\ rz.raster_order_ = "AlongN" <=>
                    rz.padded_.tiles_n <= rz.padded_.tiles_m
               /\ rz.padded_.tiles_m = rz.padded_.tiles_n =>
                    rz.raster_order_ = "AlongN"
          /\ o # "Heuristic" => rz.raster_order_ = o

\* init with Heuristic on 5 x 6 tiles, where the logical extent has n > m and
\* the padded extent is the tie 8 x 8.
C11_Witness ==
  /\ call.op = "init"
  /\ call.options.raster_order = "Heuristic"
  /\ call.problem.tiles_n > call.problem.tiles_m
  /\ rz.padded_.tiles_m = rz.padded_.tiles_n
  /\ rz.padded_.tiles_m > 0
  /\ rz.raster_order_ = "AlongN"

\* C13: ProblemShape{4,4,1}, ClusterShape{1,1}, max_swizzle_size = 1 gives
\* swizzle_size 1, padded = logical = 4 x 4, total_tiles 16, and every index
\* 0..15 decodes in bounds.
C13_Scenario4x4 ==
  (/\ call.op = "init"
   /\ call.problem = ProblemShape(4, 4, 1)
   /\ call.cluster = ClusterShape(1, 1)
   /\ call.options.max_swizzle_size = 1)
    => /\ rz.swizzle_size_ = 1
       /\ rz.logical_ = ProblemShape(4, 4, 1)
       /\ rz.padded_ = rz.logical_
       /\ rz.total_tiles_ = 16
       /\ \A i \in 0..15 : decode(rz, i).valid /\ decode(rz, i).in_bounds

\* init has been called with exactly that scenario.
C13_Witness ==
  /\ call.op = "init"
  /\ call.problem = ProblemShape(4, 4, 1)
  /\ call.cluster = ClusterShape(1, 1)
  /\ call.options = Options(1, "Heuristic")
  /\ rz.total_tiles_ = 16

\* C14: in_bounds implies valid; a valid result has l < logical.batches and is
\* in bounds exactly when m < logical.tiles_m and n < logical.tiles_n; a valid
\* result that is not in bounds lies in the padded extent, outside the
\* logical one.
C14_InBoundsMeaning ==
  call.op = "decode"
    => LET c == call.coord
       IN /\ c.in_bounds => c.valid
          /\ c.valid =>
               /\ c.l < rz.logical_.batches
               /\ c.in_bounds <=>
                    (c.m < rz.logical_.tiles_m /\ c.n < rz.logical_.tiles_n)
               /\ ~c.in_bounds =>
                    /\ c.m < rz.padded_.tiles_m
                    /\ c.n < rz.padded_.tiles_n
                    /\ (c.m >= rz.logical_.tiles_m \/ c.n >= rz.logical_.tiles_n)

\* A padding tile whose row is inside the logical extent has been decoded.
C14_Witness ==
  /\ call.op = "decode"
  /\ call.coord.valid
  /\ ~call.coord.in_bounds
  /\ call.coord.m < rz.logical_.tiles_m
  /\ call.coord.n >= rz.logical_.tiles_n

ClusterOf(r, c) == <<c.m \div r.cluster_.m, c.n \div r.cluster_.n, c.l>>

ClusterSize(r) == r.cluster_.m * r.cluster_.n

SetMin(S) == CHOOSE x \in S : \A y \in S : x <= y

\* C15: with a valid extent, the linear indices of the tiles of every cluster
\* (an aligned block of cluster.m x cluster.n tiles of one batch of the padded
\* grid) are one contiguous range of cluster.m * cluster.n indices that starts
\* at a multiple of cluster.m * cluster.n within the batch; and decode maps
\* every such aligned index range into one cluster.
\* (Evaluated once per configuration, when the instance is at rest.)
C15_ClusterContiguous ==
  (AtRest /\ has_valid_extent(rz))
    => /\ \A cm \in 0..((rz.padded_.tiles_m \div rz.cluster_.m) - 1),
             cn \in 0..((rz.padded_.tiles_n \div rz.cluster_.n) - 1),
             l \in 0..(rz.padded_.batches - 1) :
            LET idxs == {encode(rz, cm * rz.cluster_.m + dm,
                                    cn * rz.cluster_.n + dn, l, TRUE) :
                           dm \in 0..(rz.cluster_.m - 1),
                           dn \in 0..(rz.cluster_.n - 1)}
                base == SetMin(idxs)
            IN /\ idxs = base..(base + ClusterSize(rz) - 1)
               /\ base >= l * rz.tiles_per_batch_
               /\ (base - l * rz.tiles_per_batch_) % ClusterSize(rz) = 0
       /\ \A i \in PhysicalIndices(rz) :
            LET first == i - ((i % rz.tiles_per_batch_) % ClusterSize(rz))
            IN ClusterOf(rz, decode(rz, i)) = ClusterOf(rz, decode(rz, first))

\* A constructed, padded, swizzled instance with 2 x 2 clusters.
C15_Witness ==
  /\ AtRest
  /\ configured
  /\ has_valid_extent(rz)
  /\ rz.cluster_ = ClusterShape(2, 2)
  /\ rz.swizzle_size_ = 2
  /\ rz.padded_ # rz.logical_
  /\ rz.padded_.batches = 2
  /\ rz.raster_order_ = "AlongM"

Coerced(x) == IF x = 0 THEN 1 ELSE x

\* C18: init coerces a cluster extent of 0 to 1 on each axis independently and
\* leaves positive extents unchanged; the coerced values are the ones used for
\* cluster_major / cluster_minor (both >= 1) and for the alignment.
C18_ClusterCoercion ==
  call.op = "init"
    => /\ rz.cluster_.m = Coerced(call.cluster.m)
       /\ rz.cluster_.n = Coerced(call.cluster.n)
       /\ rz.cluster_major_ >= 1
       /\ rz.cluster_minor_ >= 1
       /\ <<rz.cluster_major_, rz.cluster_minor_>> =
            (IF rz.raster_order_ = "AlongN"
             THEN <<Coerced(call.cluster.n), Coerced(call.cluster.m)>>
             ELSE <<Coerced(call.cluster.m), Coerced(call.cluster.n)>>)
       /\ rz.padded_.tiles_m % (rz.swizzle_size_ * Coerced(call.cluster.m)) = 0
       /\ rz.padded_.tiles_n % (rz.swizzle_size_ * Coerced(call.cluster.n)) = 0

\* init has been called with cluster {0, 2}.
C18_Witness ==
  /\ call.op = "init"
  /\ call.cluster = ClusterShape(0, 2)
  /\ rz.cluster_ = ClusterShape(1, 2)
  /\ rz.logical_.tiles_m > 0 /\ rz.logical_.tiles_n > 0

\* C12: in the self test ({127,93,2}, cluster {2,2}, max_swizzle_size 8,
\* Heuristic) init gives log_swizzle_size 3, swizzle_size 8, padded
\* {128,96,2} and AlongN; the round trip over all logical tiles counts no
\* mismatch; the in_bounds count over [0, total_tiles) is 23622; both asserts
\* pass.
C12_SelfTest ==
  /\ test.pc # "idle" =>
       /\ rz.log_swizzle_size_ = 3
       /\ rz.swizzle_size_ = 8
       /\ rz.padded_ = ProblemShape(128, 96, 2)
       /\ rz.raster_order_ = "AlongN"
       /\ test.mismatches = 0
  /\ test.pc # "aborted"
  /\ test.pc = "passed" =>
       /\ test.in_bounds_count = 23622
       /\ test.in_bounds_count = 127 * 93 * 2
       /\ test.linear = 128 * 96 * 2

\* The self test ran both loops to the end.
C12_Witness ==
  /\ test.pc = "passed"
  /\ test.l = 1 /\ test.m = 126 /\ test.n = 92
  /\ test.linear = rz.total_tiles_

C17_LastInitDecides ==
  call.op = "init"
    => rz = init(call.problem, call.cluster, call.options)

\* A second init on an instance that an earlier init had left in another
\* state, with the other raster order.
C17_Witness ==
  /\ call.op = "init"
  /\ hist.inits = 2
  /\ hist.changed
  /\ has_valid_extent(rz)
  /\ rz.raster_order_ = "AlongM"
  /\ rz.cluster_ = ClusterShape(1, 1)

\* What the call thread t has finished returns when it runs alone.
RunAlone(t) ==
  IF thr[t].op = "decode"
  THEN thr[t].coord = decode(rz, thr[t].linear_idx)
  ELSE thr[t].linear = encode(rz, thr[t].tile_m, thr[t].tile_n, thr[t].tile_l,
                              thr[t].allow_padded)

\* C19: on a constructed instance, under any interleaving of decode and
\* encode calls of several threads, every call returns what it returns when
\* run alone; no step writes a field of the instance or another thread's
\* locals; and no thread ever waits for another (every thread can always take
\* its next step).
C19_ConcurrentCallsIsolated ==
  /\ [][/\ rz' = rz
        /\ Cardinality({t \in Threads : thr'[t] # thr[t]}) <= 1]_vars
  /\ [](\A t \in Threads :
          /\ ENABLED ThreadStep(t)
          /\ thr[t].pc = "done" => RunAlone(t))

\* Thread 1 has finished a decode of a swizzled index while thread 2 is
\* between the swizzle helper and the end of an encode of another tile.
C19_Witness ==
  /\ thr[1].pc = "done" /\ thr[1].op = "decode"
  /\ thr[1].coord.valid /\ thr[1].coord.m = 1 /\ thr[1].coord.n = 2
  /\ thr[2].pc = "combine" /\ thr[2].op = "encode"
  /\ thr[2].tile_m = 0 /\ thr[2].tile_n = 1
  /\ thr[2].cluster_id_swizzled # thr[1].cluster_id_swizzled

\* The fields of the two instances that both classes have are equal.
PortFieldsAgree ==
  /\ js.rasterizer.logical_ = rz.logical_
  /\ js.rasterizer.padded_ = rz.padded_
  /\ js.rasterizer.cluster_ = rz.cluster_
  /\ js.rasterizer.raster_order_ = rz.raster_order_
  /\ js.rasterizer.swizzle_size_ = rz.swizzle_size_
  /\ js.rasterizer.log_swizzle_size_ = rz.log_swizzle_size_
  /\ js.rasterizer.cluster_major_ = rz.cluster_major_
  /\ js.rasterizer.cluster_minor_ = rz.cluster_minor_
  /\ js.rasterizer.clusters_along_major_ = rz.clusters_along_major_
  /\ js.rasterizer.tiles_per_batch_ = rz.tiles_per_batch_
  /\ js.rasterizer.total_tiles_ = rz.total_tiles_

\* C20: the JavaScript Rasterizer is a faithful port: constructed with the
\* same arguments both instances hold the same fields, every decode returns
\* the same (m, n, l, valid, in_bounds) and every encode the same index, the
\* sentinel -1 standing for ~0.
C20_PortAgrees ==
  configured
    => /\ PortFieldsAgree
       /\ call.op = "decode" => js.coord = call.coord
       /\ call.op = "encode" => js.linear = call.linear

\* Where no swizzled cluster id reaches the sign bit of ToInt32 the two
\* classes agree on every field and on every result.
PortAgreesBelowSignBit ==
  (configured /\ rz.total_tiles_ <= Pow2(JsIntBits - 1))
    => /\ PortFieldsAgree
       /\ call.op = "decode" => js.coord = call.coord
       /\ call.op = "encode" => js.linear = call.linear

\* The divergence: a decode of an index whose swizzled cluster id has the
\* sign bit of ToInt32 set returns a negative coordinate in app.js.
PortDivergence ==
  /\ call.op = "decode"
  /\ call.coord.valid /\ js.coord.valid
  /\ PortFieldsAgree
  /\ call.linear_idx >= Pow2(JsIntBits - 1)
  /\ (js.coord.m < 0 \/ js.coord.n < 0)
  /\ js.coord # call.coord

\* How many whole clusters tile the padded extent along the minor axis
\* (clusters_along_minor_ of app.js; the C++ class keeps no such field).
ClustersAlongMinor(r) ==
  (IF r.raster_order_ = "AlongN" THEN r.padded_.tiles_m ELSE r.padded_.tiles_n)
    \div r.cluster_minor_

ClusterGridSize(r) == r.clusters_along_major_ * ClustersAlongMinor(r)

\* C21: the swizzled cluster ids walk the cluster grid in strips of
\* swizzle_size clusters: from id c to c + 1 (both inside the grid), if
\* (c + 1) mod swizzle_size # 0 the major index stays and the minor index
\* grows by 1; otherwise the minor index returns to the first cluster of its
\* strip and the major index grows by 1, except after the last major index,
\* where the major index wraps to 0 and the minor index moves to the first
\* cluster of the next strip.
C21_StripTraversal ==
  (AtRest /\ has_valid_extent(rz))
    => \A c \in 0..(ClusterGridSize(rz) - 2) :
         LET a == decode_swizzled_cluster_id(rz, c)
             b == decode_swizzled_cluster_id(rz, c + 1)
             strip_first == a.cluster_minor_idx
                              - (a.cluster_minor_idx % rz.swizzle_size_)
         IN IF (c + 1) % rz.swizzle_size_ # 0
            THEN /\ b.cluster_major_idx = a.cluster_major_idx
                 /\ b.cluster_minor_idx = a.cluster_minor_idx + 1
            ELSE IF a.cluster_major_idx + 1 < rz.clusters_along_major_
            THEN /\ b.cluster_major_idx = a.cluster_major_idx + 1
                 /\ b.cluster_minor_idx = strip_first
            ELSE /\ b.cluster_major_idx = 0
                 /\ b.cluster_minor_idx = strip_first + rz.swizzle_size_

\* A constructed instance whose cluster grid has several strips of two
\* clusters and several major indices.
C21_Witness ==
  /\ AtRest
  /\ configured
  /\ has_valid_extent(rz)
  /\ rz.swizzle_size_ = 2
  /\ rz.clusters_along_major_ >= 2
  /\ ClustersAlongMinor(rz) >= 4
  /\ rz.cluster_ = ClusterShape(2, 1)

\* C22: with a valid extent the two cluster-swizzle helpers are inverse to
\* each other on the cluster grid: every id below clusters_along_major *
\* clusters_along_minor decodes to a pair inside the grid that encodes back
\* to it, and every pair of the grid encodes to an id below that product that
\* decodes back to the pair.
C22_SwizzleHelpersInverse ==
  (AtRest /\ has_valid_extent(rz))
    => /\ \A id \in 0..(ClusterGridSize(rz) - 1) :
            LET p == decode_swizzled_cluster_id(rz, id)
            IN /\ p.cluster_major_idx \in 0..(rz.clusters_along_major_ - 1)
               /\ p.cluster_minor_idx \in 0..(ClustersAlongMinor(rz) - 1)
               /\ encode_swizzled_cluster_id(rz, p.cluster_major_idx,
                                             p.cluster_minor_idx) = id
       /\ \A major \in 0..(rz.clusters_along_major_ - 1),
             minor \in 0..(ClustersAlongMinor(rz) - 1) :
            LET id == encode_swizzled_cluster_id(rz, major, minor)
            IN /\ id \in 0..(ClusterGridSize(rz) - 1)
               /\ decode_swizzled_cluster_id(rz, id) =
                    [cluster_minor_idx |-> minor, cluster_major_idx |-> major]

\* A constructed instance with swizzle_size 4 and a grid of more than one
\* strip.
C22_Witness ==
  /\ AtRest
  /\ configured
  /\ has_valid_extent(rz)
  /\ rz.swizzle_size_ = 4
  /\ rz.clusters_along_major_ >= 3
  /\ ClustersAlongMinor(rz) = 8
  /\ rz.raster_order_ = "AlongN"

PaddedMajor(r) ==
  IF r.raster_order_ = "AlongN" THEN r.padded_.tiles_n ELSE r.padded_.tiles_m

PaddedMinor(r) ==
  IF r.raster_order_ = "AlongN" THEN r.padded_.tiles_m ELSE r.padded_.tiles_n

\* C23: after init, AlongN gives cluster_major = cluster.n and cluster_minor =
\* cluster.m, AlongM the other way round; the cluster counts divide the padded
\* extent exactly, both counts are multiples of swizzle_size, and
\* clusters_along_major * clusters_along_minor * cluster_major * cluster_minor
\* = tiles_per_batch, with total_tiles = tiles_per_batch * padded.batches.
C23_ClusterCounts ==
  call.op = "init"
    => /\ rz.raster_order_ = "AlongN" =>
            rz.cluster_major_ = rz.cluster_.n /\ rz.cluster_minor_ = rz.cluster_.m
       /\ rz.raster_order_ = "AlongM" =>
            rz.cluster_major_ = rz.cluster_.m /\ rz.cluster_minor_ = rz.cluster_.n
       /\ rz.clusters_along_major_ * rz.cluster_major_ = PaddedMajor(rz)
       /\ ClustersAlongMinor(rz) * rz.cluster_minor_ = PaddedMinor(rz)
       /\ rz.clusters_along_major_ % rz.swizzle_size_ = 0
       /\ ClustersAlongMinor(rz) % rz.swizzle_size_ = 0
       /\ ClusterGridSize(rz) * rz.cluster_major_ * rz.cluster_minor_
            = rz.tiles_per_batch_
       /\ rz.total_tiles_ = rz.tiles_per_batch_ * rz.padded_.batches

\* init with explicit AlongM on a padded 2 x 1-cluster grid whose two extents
\* differ.
C23_Witness ==
  /\ call.op = "init"
  /\ call.options.raster_order = "AlongM"
  /\ rz.cluster_ = ClusterShape(2, 1)
  /\ rz.swizzle_size_ = 2
  /\ rz.padded_.tiles_m # rz.padded_.tiles_n
  /\ rz.padded_ # rz.logical_
  /\ rz.padded_.batches = 2

\* C24: in w-bit unsigned arithmetic init never wraps, whatever representable
\* problem and cluster it is given: swizzle_size * cluster.m (and .n) and
\* value + multiple - 1 inside round_up stay below 2^w, and the padded tile
\* counts are not below the logical ones.
C24_InitNeverWraps ==
  call.op = "init"
    => /\ rz.swizzle_size_ * rz.cluster_.m <= UintMax
       /\ rz.swizzle_size_ * rz.cluster_.n <= UintMax
       /\ rz.logical_.tiles_m + rz.swizzle_size_ * rz.cluster_.m - 1 <= UintMax
       /\ rz.logical_.tiles_n + rz.swizzle_size_ * rz.cluster_.n - 1 <= UintMax
       /\ rz.padded_.tiles_m >= rz.logical_.tiles_m
       /\ rz.padded_.tiles_n >= rz.logical_.tiles_n

\* The wrap: the largest tile count with clusters of two tiles; the sum inside
\* round_up wraps to 0 and the padded count is 0.
WrapDivergence ==
  /\ call.op = "init"
  /\ call.problem.tiles_m = UintMax
  /\ call.cluster.m = 2
  /\ rz.swizzle_size_ = 1
  /\ rz.padded_.tiles_m = 0
  /\ ~has_valid_extent(rz)

\* Where neither the alignment nor the sum inside round_up reaches 2^w, init
\* in unsigned arithmetic is init in exact arithmetic, and the padded counts
\* are not below the logical ones.
InitExactWithoutWrap ==
  (/\ call.op = "init"
   /\ rz.logical_.tiles_m + rz.swizzle_size_ * rz.cluster_.m - 1 <= UintMax
   /\ rz.logical_.tiles_n + rz.swizzle_size_ * rz.cluster_.n - 1 <= UintMax)
    => /\ rz = init(call.problem, call.cluster, call.options)
       /\ rz.padded_.tiles_m >= rz.logical_.tiles_m
       /\ rz.padded_.tiles_n >= rz.logical_.tiles_n

\* The cursor of the page is inside the problem.
CursorInRange(s) ==
  /\ 0 <= s.batch
  /\ s.batch < s.rasterizer.logical_.batches
  /\ 0 <= s.localLinearIndex
  /\ s.localLinearIndex < s.rasterizer.tiles_per_batch_

\* C25: once the page is loaded, after every event the batch and the local
\* index of the cursor are inside the problem, so the current linear index is
\* below totalTiles and its decode is valid.
C25_CursorInRange ==
  ui.loaded
    => /\ CursorInRange(ui)
       /\ currentLinearIndex(ui) < ui.rasterizer.total_tiles_
       /\ JsDecode(ui.rasterizer, currentLinearIndex(ui)).valid

\* The cursor stands on the last index of the last batch of a problem with two
\* batches of four tiles, the largest value both clamps let through, and the
\* cache holds that batch alone.
C25_Witness ==
  /\ ui.loaded
  /\ ui.rasterizer.logical_.batches = 2
  /\ ui.batch = 1
  /\ ui.rasterizer.tiles_per_batch_ = 4
  /\ ui.localLinearIndex = 3
  /\ ~ui.playing
  /\ DOMAIN ui.batchCache = {1}

\* A tick moves the cursor to the next physical index, cyclically.
TickAdvances ==
  IntervalTick
    => LET r == ui.rasterizer
           atEnd == ui.localLinearIndex + 1 >= r.tiles_per_batch_
       IN /\ currentLinearIndex(ui)' = (currentLinearIndex(ui) + 1) % r.total_tiles_
          /\ ui'.localLinearIndex = IF atEnd THEN 0 ELSE ui.localLinearIndex + 1
          /\ ui'.batch = IF atEnd THEN (ui.batch + 1) % r.logical_.batches ELSE ui.batch

\* C26: each playback tick moves the cursor to the next physical index
\* cyclically (the local index wraps to 0 and the batch advances modulo the
\* batch count at the end of a batch), and while the playback stays on every
\* physical index of every batch is eventually visited.
C26_PlaybackVisitsAll ==
  /\ [][TickAdvances]_vars
  /\ \A i \in 0..(MaxIndexUi * MaxBatchesUi - 1) :
       (ui.loaded /\ ui.playing /\ i < ui.rasterizer.total_tiles_)
         ~> (ui.loaded /\ ui.playing /\ currentLinearIndex(ui) = i)

\* The playback is on in a problem of two batches of four tiles, the cursor is
\* in the middle of the first batch, and both batches have been rendered.
C26_Witness ==
  /\ ui.loaded
  /\ ui.playing
  /\ ui.intervals # {}
  /\ ui.rasterizer.logical_.batches = 2
  /\ ui.rasterizer.tiles_per_batch_ = 4
  /\ ui.batch = 0
  /\ ui.localLinearIndex = 2
  /\ DOMAIN ui.batchCache = {0, 1}

\* C27: the cache never serves data of an older configuration: every cached
\* entry for a batch b equals what getBatchData(b) computes from scratch with
\* the current rasterizer.
C27_CacheIsCurrent ==
  ui.loaded
    => \A b \in DOMAIN ui.batchCache :
         ui.batchCache[b] = computeBatchData(ui.rasterizer, b)

\* Both batches of a padded, swizzled problem are cached: the padded grid has
\* cells outside the logical one, and the cache holds sixteen tiles per batch.
C27_Witness ==
  /\ ui.loaded
  /\ DOMAIN ui.batchCache = {0, 1}
  /\ ui.rasterizer.swizzle_size_ = 2
  /\ ui.rasterizer.logical_.tiles_m < ui.rasterizer.padded_.tiles_m
  /\ Len(ui.batchCache[1].sequence) = 16
  /\ Len(ui.batchCache[1].logicalSequence) < 16
  /\ \E k \in 1..16 : ~ui.batchCache[1].cells[k].inBounds

\* No interval is live and the playback is off.
PlaybackOff(s) ==
  /\ ~s.playing
  /\ s.timer = NoTimer
  /\ s.intervals = {}

\* C28: after every event handler, state.playing is true exactly when
\* state.timer is not null, and at most one interval is live, the one
\* state.timer names; stopPlayback and rebuildMapping leave no live interval
\* and the playback off.
C28_OneTimer ==
  ui.loaded
    => /\ ui.playing <=> ui.timer # NoTimer
       /\ Cardinality(ui.intervals) <= 1
       /\ ui.intervals = IF ui.timer # NoTimer THEN {ui.timer} ELSE {}
       /\ PlaybackOff(stopPlayback(ui))
       /\ ui.playing => \A f \in PageFields : PlaybackOff(rebuildMapping(ui, f))

\* The playback is on with one live interval, the one state.timer names, and
\* the cursor has moved into the second batch.
C28_Witness ==
  /\ ui.loaded
  /\ ui.playing
  /\ ui.timer # NoTimer
  /\ ui.intervals = {ui.timer}
  /\ ui.localLinearIndex = 1
  /\ ui.batch = 1

====
